---- MODULE Spec2Model ----
(***************************************************************************)
(* Model of the Local Sidekick engine.                                     *)
(*                                                                         *)
(*   Part I   NotificationEngine  (engine/notification/engine.py)          *)
(*   Part II  Orchestrator        (engine/main.py, engine/api/routes.py)   *)
(*   Part III Bucket aggregator   (engine/history/aggregator.py)           *)
(*   Part IV  Model downloads     (engine/api/models.py, engine/main.py)   *)
(*                                                                         *)
(* Times are seconds.  Python's None is the string "None" where the value  *)
(* is otherwise a string, and the empty tuple <<>> where it is otherwise a *)
(* number (an optional value x is <<x>>).                                  *)
(***************************************************************************)
EXTENDS Integers, Sequences, FiniteSets, TLC

VARIABLES
    \* ---- Part I: one NotificationEngine and its environment
    engine,        \* the NotificationEngine object (its fields)
    ncfg,          \* the constructor arguments the engine was built with
    now,           \* timestamp of the latest evaluate call
    t0,            \* timestamp the run started at
    wall_date,     \* datetime.date.today(), as a day number
    last_call,     \* what the latest call on the engine was and returned
    resets,        \* number of reset_consecutive calls so far
    run_since_reset, \* once reset_consecutive was called: <<state, timestamp>>
                   \* of the evaluate calls after the latest reset that form
                   \* the current unbroken run of one state, oldest first
    emitted        \* the notifications logged and broadcast so far, each
                   \* with the number of resets that came before it

VARIABLES
    \* ---- Part II: the globals of engine/main.py and what runs on them
    should_monitor,            \* _should_monitor (and _engine_state["monitoring"])
    paused,                    \* _paused (and _engine_state["paused"])
    config,                    \* _config, the fields the model reads
    latest_camera_snapshot,    \* _latest_camera_snapshot: <<>> or <<snapshot>>
    latest_pc_snapshot,        \* _latest_pc_snapshot: <<>> or <<snapshot>>
    notification_engine,       \* _notification_engine: None or an engine
    shared_llm_backend,        \* _shared_llm_backend: <<>> or <<backend id>>
    llm_load_failed,           \* _llm_load_failed
    llm_lock,                  \* _llm_lock: its holder and its queue of waiters
    monitoring_tasks,          \* _monitoring_tasks: list of task ids
    tasks,                     \* every asyncio task created so far, by id
    threads,                   \* the asyncio.to_thread calls that are running
    backends,                  \* every LLMBackend object created so far, by id
    stops,                     \* every stop_monitoring call so far, by id
    model_file,                \* whether the model file exists on disk
    resumes,                   \* number of resume_monitoring calls so far
    config_changes,            \* number of apply_config calls so far
    clock,                     \* time.time(), in seconds
    last_step                  \* what the latest step of the event loop did

VARIABLES
    \* ---- Part III: one call of build_bucketed_segments
    logs,                      \* the list of state log entries handed in
    bucket_minutes,            \* its argument bucket_minutes
    max_entry_duration,        \* its argument max_entry_duration
    last_build                 \* what the latest call was and returned

nvars == <<engine, ncfg, now, t0, wall_date, last_call, resets, run_since_reset,
          emitted>>

ovars == <<should_monitor, paused, config, latest_camera_snapshot,
           latest_pc_snapshot, notification_engine, shared_llm_backend,
           llm_load_failed, llm_lock, monitoring_tasks, tasks, threads,
           backends, stops, model_file, resumes, config_changes, clock,
           last_step>>

hvars == <<logs, bucket_minutes, max_entry_duration, last_build>>

VARIABLES
    \* ---- Part IV: the model files and their downloads
    _download_state,           \* model id -> recorded download status
    model_files,               \* the model ids whose files are in MODELS_DIR
    download_threads,          \* model id -> running "download-<id>" threads
    auto_download,             \* the "auto-download-essential" thread
    last_request               \* what the latest request was and answered

dvars == <<_download_state, model_files, download_threads, auto_download,
           last_request>>

vars == <<nvars, ovars, hvars, dvars>>

\* Part III at rest: no log entries, the default arguments, no call made
HIdle ==
    /\ logs = <<>>
    /\ bucket_minutes = 5
    /\ max_entry_duration = 30
    /\ last_build = [op |-> "init"]

\* Part IV at rest: no model file, no download recorded or running, the
\* start-up of the engine not yet reached, no request made
DIdle ==
    /\ _download_state = [m \in {"qwen2.5-3b", "qwen2.5-7b", "face_landmarker"} |-> <<>>]
    /\ model_files = {}
    /\ download_threads = [m \in {"qwen2.5-3b", "qwen2.5-7b", "face_landmarker"} |-> 0]
    /\ auto_download = [pc |-> "boot", todo |-> <<>>]
    /\ last_request = [op |-> "init"]

-----------------------------------------------------------------------------
(* Bounds of the model *)

\* evaluate calls are explored up to this many seconds after the first one
Horizon == 180

\* reset_consecutive is called at most this many times
MaxResets == 1

\* the wall-clock date advances at most this many times
MaxDateChanges == 1

-----------------------------------------------------------------------------
(* Part I.  NotificationEngine *)

None == "None"

\* EngineConfig.model_tier: rule-only mode and one tier with a model file
ModelTiers == {"none", "lightweight"}

NotificationTypes == {"drowsy", "distracted", "over_focus"}

\* the integrated states the model feeds to evaluate
States == {"focused", "drowsy", "distracted"}

\* seconds in a calendar day, for the date of a timestamp
DaySeconds == 24 * 60 * 60

DateOf(ts) == ts \div DaySeconds

\* Constructor arguments (NotificationEngine.__init__ keyword arguments and
\* the interval_seconds the caller passes), small so that triggers,
\* cooldowns and the daily cap are all reached inside Horizon.
Configs ==
    { [ drowsy_trigger_seconds       |-> 30,
        distracted_trigger_seconds   |-> 30,
        over_focus_window_minutes    |-> 2,
        over_focus_threshold_minutes |-> 1,
        drowsy_cooldown_minutes      |-> 1,
        distracted_cooldown_minutes  |-> 2,
        over_focus_cooldown_minutes  |-> 1,
        max_notifications_per_day    |-> 2,
        interval_seconds             |-> 30 ] }

\* seconds between two evaluate calls
Steps == {30, 60}

\* timestamps of the first evaluate call: the epoch itself and shortly
\* before the first midnight
StartTimes == {0, DaySeconds - 60}

\* NotificationEngine.__init__
NewEngine(c) ==
    [ drowsy_trigger       |-> c.drowsy_trigger_seconds,
      distracted_trigger   |-> c.distracted_trigger_seconds,
      over_focus_window    |-> c.over_focus_window_minutes * 60,
      over_focus_threshold |-> c.over_focus_threshold_minutes * 60,
      cooldowns            |-> [ drowsy     |-> c.drowsy_cooldown_minutes * 60,
                                 distracted |-> c.distracted_cooldown_minutes * 60,
                                 over_focus |-> c.over_focus_cooldown_minutes * 60 ],
      max_per_day          |-> c.max_notifications_per_day,
      consecutive_state    |-> None,
      consecutive_start    |-> 0,
      last_notification_time |-> <<>>,   \* dict type -> time, as a function
      today_count          |-> 0,
      today_date           |-> <<>>,
      state_history        |-> <<>>,     \* deque of <<timestamp, state, duration>>
      notifications        |-> <<>> ]    \* list of [type, timestamp]

\* self._last_notification_time.get(notification_type, 0.0)
LastTime(e, type) ==
    IF type \in DOMAIN e.last_notification_time
    THEN e.last_notification_time[type]
    ELSE 0

\* NotificationEngine._reset_day_if_needed: the date is today's, whatever
\* timestamp the caller evaluates
_reset_day_if_needed(e, ts, today) ==
    IF e.today_date # <<today>>
    THEN [e EXCEPT !.today_date = <<today>>, !.today_count = 0]
    ELSE e

_is_on_cooldown_inclusive(e, type, ts) ==
    (ts - LastTime(e, type)) <= e.cooldowns[type]

\* NotificationEngine._is_on_cooldown
_is_on_cooldown(e, type, ts) ==
    (ts - LastTime(e, type)) < e.cooldowns[type]

\* NotificationEngine._can_notify, on the engine after its day reset
_can_notify(e, type, ts) ==
    /\ ~(e.today_count >= e.max_per_day)
    /\ ~_is_on_cooldown(e, type, ts)

\* _MESSAGES, lines 31-35: the default message of each type
_MESSAGES ==
    [drowsy     |-> "Drowsiness detected.",
     distracted |-> "You seem distracted.",
     over_focus |-> "You have been focused for over 80 minutes."]

_trigger_stamps_all(e, type, ts) ==
    [e EXCEPT
        !.last_notification_time = [t \in NotificationTypes |-> ts],
        !.today_count = e.today_count + 1,
        !.notifications = Append(e.notifications,
                                 [type |-> type, message |-> _MESSAGES[type],
                                  timestamp |-> ts, user_action |-> None])]

\* NotificationEngine._trigger
_trigger(e, type, ts) ==
    [e EXCEPT
        !.last_notification_time =
            [t \in (DOMAIN e.last_notification_time) \cup {type} |->
                IF t = type THEN ts ELSE e.last_notification_time[t]],
        !.today_count = e.today_count + 1,
        !.notifications = Append(e.notifications,
                                 [type |-> type, message |-> _MESSAGES[type],
                                  timestamp |-> ts, user_action |-> None])]

RECURSIVE SumFocused(_, _)
\* the loop of _check_over_focus over the history h
SumFocused(h, window_start) ==
    IF h = <<>> THEN 0
    ELSE (IF Head(h)[1] >= window_start /\ Head(h)[2] = "focused"
          THEN Head(h)[3] ELSE 0)
         + SumFocused(Tail(h), window_start)

\* NotificationEngine._check_over_focus: the engine after the call, and
\* the notification type returned (None when nothing fires)
_check_over_focus(e, ts, today) ==
    LET e1 == _reset_day_if_needed(e, ts, today)
    IN  IF ~_can_notify(e1, "over_focus", ts)
        THEN [e |-> e1, fired |-> None]
        ELSE IF SumFocused(e1.state_history, ts - e1.over_focus_window)
                    >= e1.over_focus_threshold
             THEN [e |-> _trigger(e1, "over_focus", ts), fired |-> "over_focus"]
             ELSE [e |-> e1, fired |-> None]

RECURSIVE Prune(_, _)
\* while self._state_history and self._state_history[0][0] < cutoff: popleft()
Prune(h, cutoff) ==
    IF h # <<>> /\ Head(h)[1] < cutoff THEN Prune(Tail(h), cutoff) ELSE h

Track_keeps_start(e, state, ts, interval) ==
    LET h == Prune(Append(e.state_history, <<ts, state, interval>>),
                   ts - e.over_focus_window * 2)
    IN  IF state # e.consecutive_state
        THEN [e EXCEPT !.state_history = h,
                       !.consecutive_state = state,
                       !.consecutive_start =
                           IF e.consecutive_state = None THEN ts ELSE @]
        ELSE [e EXCEPT !.state_history = h]

\* the part of evaluate before the checks: record, prune, track the run
Track(e, state, ts, interval) ==
    LET h == Prune(Append(e.state_history, <<ts, state, interval>>),
                   ts - e.over_focus_window * 2)
    IN  IF state # e.consecutive_state
        THEN [e EXCEPT !.state_history = h,
                       !.consecutive_state = state,
                       !.consecutive_start = ts]
        ELSE [e EXCEPT !.state_history = h]

\* the checks of evaluate tried over_focus first
ChecksOverFocusFirst(e1, state, ts, today) ==
    LET of == _check_over_focus(e1, ts, today)
        consecutive_seconds == ts - e1.consecutive_start
        d == _reset_day_if_needed(of.e, ts, today)
    IN  IF of.fired # None THEN of
        ELSE IF /\ state = "drowsy"
                /\ consecutive_seconds >= e1.drowsy_trigger
                /\ _can_notify(d, "drowsy", ts)
             THEN [e |-> _trigger(d, "drowsy", ts), fired |-> "drowsy"]
             ELSE IF /\ state = "distracted"
                     /\ consecutive_seconds >= e1.distracted_trigger
                     /\ _can_notify(d, "distracted", ts)
                  THEN [e |-> _trigger(d, "distracted", ts), fired |-> "distracted"]
                  ELSE [e |-> of.e, fired |-> None]

\* the checks of evaluate (lines 180-197), in the code's order: drowsy,
\* distracted, over_focus; _can_notify is only called when the pattern holds
Checks(e1, state, ts, today) ==
    LET consecutive_seconds == ts - e1.consecutive_start
        drowsyPattern == state = "drowsy"
                         /\ consecutive_seconds >= e1.drowsy_trigger
        distractedPattern == state = "distracted"
                             /\ consecutive_seconds >= e1.distracted_trigger
        d1 == IF drowsyPattern THEN _reset_day_if_needed(e1, ts, today) ELSE e1
        d2 == IF distractedPattern THEN _reset_day_if_needed(d1, ts, today) ELSE d1
    IN  IF drowsyPattern /\ _can_notify(d1, "drowsy", ts)
        THEN [e |-> _trigger(d1, "drowsy", ts), fired |-> "drowsy"]
        ELSE IF distractedPattern /\ _can_notify(d2, "distracted", ts)
             THEN [e |-> _trigger(d2, "distracted", ts), fired |-> "distracted"]
             ELSE _check_over_focus(d2, ts, today)

\* NotificationEngine.evaluate
evaluate(e, state, ts, interval, today) ==
    Checks(Track(e, state, ts, interval), state, ts, today)

reset_consecutive_start_only(e) ==
    [e EXCEPT !.consecutive_start = 0]

\* NotificationEngine.reset_consecutive
reset_consecutive(e) ==
    [e EXCEPT !.consecutive_state = None, !.consecutive_start = 0]

\* NotificationEngine.record_user_action; Python's index 0 is position 1
record_user_action(e, notification_index, action) ==
    IF 0 <= notification_index /\ notification_index < Len(e.notifications)
    THEN LET old == e.notifications[notification_index + 1]
         IN  [e EXCEPT !.notifications[notification_index + 1] =
                 [type |-> old.type, message |-> old.message,
                  timestamp |-> old.timestamp, user_action |-> action]]
    ELSE e

\* HistoryStore.update_notification_action: UPDATE notifications SET
\* user_action = ? WHERE id = ?.  The table is the list of its rows in the
\* order of their insertion and a row's id is its position (AUTOINCREMENT).
update_notification_action(table, notification_id, user_action) ==
    [id \in DOMAIN table |->
        IF id = notification_id
        THEN [table[id] EXCEPT !.user_action = user_action]
        ELSE table[id]]

-----------------------------------------------------------------------------
(* Part I, the state machine: one engine, called with non-decreasing
   timestamps that are never later than the wall clock's date. *)

\* the globals of engine/main.py as the module defines them (lines 50-66)
OInit ==
    /\ should_monitor = FALSE
    /\ paused = FALSE
    /\ config \in [model_tier : ModelTiers]
    /\ latest_camera_snapshot = <<>>
    /\ latest_pc_snapshot = <<>>
    /\ notification_engine = None
    /\ shared_llm_backend = <<>>
    /\ llm_load_failed = FALSE
    /\ llm_lock = [holder |-> <<>>, waiters |-> <<>>]
    /\ monitoring_tasks = <<>>
    /\ tasks = <<>>
    /\ threads = {}
    /\ backends = <<>>
    /\ stops = <<>>
    /\ model_file \in BOOLEAN
    /\ resumes = 0
    /\ config_changes = 0
    /\ clock = 0
    /\ last_step = [act |-> "init", events |-> {}, classified |-> {}, final |-> <<>>, given |-> <<>>]

\* Part II at rest, for the runs that exercise the NotificationEngine alone
OIdle ==
    /\ OInit
    /\ config.model_tier = "none"
    /\ model_file = FALSE

NInit ==
    /\ OIdle
    /\ HIdle /\ DIdle
    /\ ncfg \in Configs
    /\ engine = NewEngine(ncfg)
    /\ t0 \in StartTimes
    /\ now = t0
    /\ wall_date = DateOf(t0)
    /\ last_call = [op |-> "init"]
    /\ resets = 0
    /\ run_since_reset = <<>>
    /\ emitted = <<>>

\* one call of evaluate(state, timestamp, interval_seconds)
Evaluate(state, ts) ==
    LET r == evaluate(engine, state, ts, ncfg.interval_seconds, wall_date)
    IN  /\ ts <= t0 + Horizon
        /\ DateOf(ts) <= wall_date
        /\ engine' = r.e
        /\ now' = ts
        /\ last_call' =
               [ op |-> "evaluate", state |-> state, fired |-> r.fired,
                 \* what the call found: the last-fired times, whether the
                 \* day's count had reached the cap, how many notifications
                 \* it appended
                 last_before |-> engine.last_notification_time,
                 capped |-> LET d == _reset_day_if_needed(engine, ts, wall_date)
                            IN  d.today_count >= d.max_per_day,
                 appended |-> Len(r.e.notifications) - Len(engine.notifications) ]
        /\ run_since_reset' =
               IF resets = 0 THEN <<>>
               ELSE IF run_since_reset # <<>> /\ run_since_reset[1][1] = state
                    THEN Append(run_since_reset, <<state, ts>>)
                    ELSE << <<state, ts>> >>
        \* _integration_loop lines 361-371: log_notification, broadcast_notification
        /\ emitted' =
               IF r.fired = None THEN emitted
               ELSE Append(emitted, [type |-> r.fired,
                                     message |-> _MESSAGES[r.fired],
                                     timestamp |-> ts, user_action |-> None,
                                     resets |-> resets])
        /\ UNCHANGED <<ncfg, t0, wall_date, resets>>
        /\ UNCHANGED <<ovars, hvars, dvars>>

EvaluateFirst ==
    /\ last_call.op = "init"
    /\ \E state \in States : Evaluate(state, t0)

EvaluateNext ==
    /\ last_call.op # "init"
    /\ \E state \in States, d \in Steps : Evaluate(state, now + d)

\* resume_monitoring's call of reset_consecutive
ResetConsecutive ==
    /\ last_call.op = "evaluate"
    /\ resets < MaxResets
    /\ engine' = reset_consecutive(engine)
    /\ last_call' = [op |-> "reset_consecutive"]
    /\ resets' = resets + 1
    /\ run_since_reset' = <<>>
    /\ UNCHANGED <<ncfg, now, t0, wall_date, emitted>>
    /\ UNCHANGED <<ovars, hvars, dvars>>

\* midnight passes on the wall clock
DateChange ==
    /\ wall_date < DateOf(t0) + MaxDateChanges
    /\ wall_date' = wall_date + 1
    /\ UNCHANGED <<engine, ncfg, now, t0, last_call, resets, run_since_reset,
                   emitted>>
    /\ UNCHANGED <<ovars, hvars, dvars>>

NNext == EvaluateFirst \/ EvaluateNext \/ ResetConsecutive \/ DateChange

NotifySpec == NInit /\ [][NNext]_vars

-----------------------------------------------------------------------------
(* Part II.  Orchestrator: the asyncio tasks of engine/main.py.

   One step is what one coroutine runs between two suspensions of the
   event loop (asyncio.sleep, asyncio.to_thread, a database or socket
   await, a contended lock), or what one worker thread does.  A lock that is
   free is acquired without suspending. *)

\* start_monitoring is called at most this many times
MaxStarts == 2

\* resume_monitoring is called at most this many times
MaxResumes == 1

\* apply_config is called at most this many times
MaxConfigChanges == 1

\* The thresholds of rule_classifier.py.  Ratios, eye-openness (EAR) and
\* confidences are in hundredths; angles are degrees, times seconds.
AWAY_FACE_NOT_DETECTED_RATIO == 70
FOCUSED_MIN_EAR == 27
FOCUSED_RELAXED_MIN_EAR == 22
FOCUSED_MAX_YAW == 40
FOCUSED_MULTI_MONITOR_MAX_YAW == 60
FOCUSED_MAX_PITCH == 30
PC_NOT_IDLE_MAX_SECONDS == 60
FALLBACK_DISTRACTED_YAW == 45
FALLBACK_DISTRACTED_APP_SWITCHES == 6
FALLBACK_DISTRACTED_UNIQUE_APPS == 4

Abs(x) == IF x < 0 THEN 0 - x ELSE x

\* _get_head_pose_values without abs(): a turn to the left or a look down
\* is a negative angle
_get_head_pose_values_signed(head_pose) ==
    [yaw |-> head_pose.yaw, pitch |-> head_pose.pitch]

\* _get_head_pose_values
_get_head_pose_values(head_pose) ==
    [yaw |-> Abs(head_pose.yaw), pitch |-> Abs(head_pose.pitch)]

\* ClassificationResult(..., source="rule"); the reasoning names the rule
ClassificationResult(state, confidence, reasoning) ==
    [state |-> state, confidence |-> confidence, reasoning |-> reasoning,
     source |-> "rule"]

\* the None that classify_unified returns for an ambiguous case
Ambiguous == ClassificationResult(None, 0, "ambiguous")

\* classify_unified.  A snapshot is optional: <<>> or <<record>>; so are
\* the fields face_not_detected_ratio, ear_average and head_pose.
classify_unified(camera, pc) ==
    IF camera = <<>> /\ pc = <<>>
    THEN ClassificationResult("unknown", 0, "no data")
    ELSE IF camera = <<>> THEN Ambiguous
    ELSE IF ~camera[1].face_detected
    THEN ClassificationResult("away", 100, "no face")
    ELSE IF /\ camera[1].face_not_detected_ratio # <<>>
            /\ camera[1].face_not_detected_ratio[1] > AWAY_FACE_NOT_DETECTED_RATIO
    THEN ClassificationResult("away", 90, "face ratio")
    ELSE IF pc = <<>> THEN Ambiguous
    ELSE
    LET ear_avg == camera[1].ear_average
        perclos_drowsy == camera[1].perclos_drowsy
        yawning == camera[1].yawning
        head_pose == camera[1].head_pose
        idle_seconds == pc[1].idle_seconds
        is_idle == pc[1].is_idle
        pc_not_idle == ~is_idle /\ idle_seconds <= PC_NOT_IDLE_MAX_SECONDS
        yaw == _get_head_pose_values(head_pose[1]).yaw
        pitch == _get_head_pose_values(head_pose[1]).pitch
        no_drowsy_signals ==
            /\ ~perclos_drowsy
            /\ ~yawning
            /\ ear_avg # <<>>
            /\ ear_avg[1] > FOCUSED_RELAXED_MIN_EAR
    IN  IF /\ ear_avg # <<>>
           /\ ear_avg[1] > FOCUSED_MIN_EAR
           /\ ~perclos_drowsy
           /\ ~yawning
           /\ head_pose # <<>>
           /\ pc_not_idle
           /\ yaw < FOCUSED_MAX_YAW /\ pitch < FOCUSED_MAX_PITCH
        THEN ClassificationResult("focused", 90, "clear focused")
        ELSE IF /\ no_drowsy_signals
                /\ head_pose # <<>>
                /\ ~pc_not_idle
                /\ yaw < FOCUSED_MAX_YAW /\ pitch < FOCUSED_MAX_PITCH
        THEN ClassificationResult("focused", 75, "reading or watching")
        ELSE IF /\ no_drowsy_signals
                /\ ear_avg # <<>>
                /\ ear_avg[1] <= FOCUSED_MIN_EAR
                /\ head_pose # <<>>
                /\ pc_not_idle
                /\ yaw < FOCUSED_MAX_YAW /\ pitch < FOCUSED_MAX_PITCH
        THEN ClassificationResult("focused", 80, "slightly low EAR")
        ELSE IF /\ no_drowsy_signals
                /\ head_pose # <<>>
                /\ pc_not_idle
                /\ FOCUSED_MAX_YAW <= yaw /\ yaw < FOCUSED_MULTI_MONITOR_MAX_YAW
                /\ pitch < FOCUSED_MAX_PITCH
        THEN ClassificationResult("focused", 75, "multi-monitor")
        ELSE Ambiguous

\* classify_unified_fallback with >= in place of > at its three thresholds
classify_unified_fallback_inclusive(camera, pc) ==
    IF camera = <<>> /\ pc = <<>>
    THEN ClassificationResult("unknown", 0, "no data")
    ELSE IF camera # <<>> /\ camera[1].perclos_drowsy /\ camera[1].yawning
    THEN ClassificationResult("drowsy", 70, "perclos and yawning")
    ELSE IF camera # <<>> /\ camera[1].yawning
    THEN ClassificationResult("drowsy", 60, "yawning")
    ELSE IF /\ camera # <<>>
            /\ camera[1].head_pose # <<>>
            /\ _get_head_pose_values(camera[1].head_pose[1]).yaw
                  >= FALLBACK_DISTRACTED_YAW
    THEN ClassificationResult("distracted", 60, "head turned")
    ELSE IF /\ pc # <<>>
            /\ pc[1].app_switches_in_window >= FALLBACK_DISTRACTED_APP_SWITCHES
            /\ pc[1].unique_apps_in_window >= FALLBACK_DISTRACTED_UNIQUE_APPS
    THEN ClassificationResult("distracted", 60, "app switches")
    ELSE ClassificationResult("focused", 50, "default")

\* classify_unified_fallback with the distraction checks ahead of the
\* drowsiness checks
classify_unified_fallback_distraction_first(camera, pc) ==
    IF camera = <<>> /\ pc = <<>>
    THEN ClassificationResult("unknown", 0, "no data")
    ELSE IF /\ camera # <<>>
            /\ camera[1].head_pose # <<>>
            /\ _get_head_pose_values(camera[1].head_pose[1]).yaw
                  > FALLBACK_DISTRACTED_YAW
    THEN ClassificationResult("distracted", 60, "head turned")
    ELSE IF /\ pc # <<>>
            /\ pc[1].app_switches_in_window > FALLBACK_DISTRACTED_APP_SWITCHES
            /\ pc[1].unique_apps_in_window > FALLBACK_DISTRACTED_UNIQUE_APPS
    THEN ClassificationResult("distracted", 60, "app switches")
    ELSE IF camera # <<>> /\ camera[1].perclos_drowsy /\ camera[1].yawning
    THEN ClassificationResult("drowsy", 70, "perclos and yawning")
    ELSE IF camera # <<>> /\ camera[1].yawning
    THEN ClassificationResult("drowsy", 60, "yawning")
    ELSE ClassificationResult("focused", 50, "default")

\* classify_unified_fallback
classify_unified_fallback(camera, pc) ==
    IF camera = <<>> /\ pc = <<>>
    THEN ClassificationResult("unknown", 0, "no data")
    ELSE IF camera # <<>> /\ camera[1].perclos_drowsy /\ camera[1].yawning
    THEN ClassificationResult("drowsy", 70, "perclos and yawning")
    ELSE IF camera # <<>> /\ camera[1].yawning
    THEN ClassificationResult("drowsy", 60, "yawning")
    ELSE IF /\ camera # <<>>
            /\ camera[1].head_pose # <<>>
            /\ _get_head_pose_values(camera[1].head_pose[1]).yaw
                  > FALLBACK_DISTRACTED_YAW
    THEN ClassificationResult("distracted", 60, "head turned")
    ELSE IF /\ pc # <<>>
            /\ pc[1].app_switches_in_window > FALLBACK_DISTRACTED_APP_SWITCHES
            /\ pc[1].unique_apps_in_window > FALLBACK_DISTRACTED_UNIQUE_APPS
    THEN ClassificationResult("distracted", 60, "app switches")
    ELSE ClassificationResult("focused", 50, "default")

\* The snapshots the loops of the model produce.  A camera snapshot shows
\* either a face looking at the screen with open eyes ("clear") or the same
\* face yawning ("yawning"); a usage snapshot shows an active user or an
\* idle machine.  epoch and t say when it was captured.
CameraKinds == {"clear", "yawning"}

UsageKinds == {"active", "idle"}

\* TrackerSnapshot.to_dict()
CameraSnapshot(face, epoch, t) ==
    [kind |-> "face", face_detected |-> TRUE, face_not_detected_ratio |-> <<0>>,
     ear_average |-> <<30>>, perclos_drowsy |-> FALSE,
     yawning |-> (face = "yawning"), head_pose |-> <<[yaw |-> 5, pitch |-> -3]>>,
     epoch |-> epoch, t |-> t]

\* UsageSnapshot.to_dict()
UsageSnapshot(usage, epoch, t) ==
    [kind |-> "usage", is_idle |-> (usage = "idle"),
     idle_seconds |-> IF usage = "idle" THEN 120 ELSE 5,
     app_switches_in_window |-> 2, unique_apps_in_window |-> 2,
     epoch |-> epoch, t |-> t]

\* the states the model lets LLMBackend.classify answer
LLMStates == {"focused", "drowsy"}

\* ClassificationResult(..., source="llm"), lines 295-300
LLMResult(state) ==
    [state |-> state, confidence |-> 50, reasoning |-> "llm", source |-> "llm"]

\* The dicts the model lets json.loads hand back from LLMBackend.classify
\* (llm_backend.py lines 123-129): whatever JSON object the model wrote.
\* A key is optional (<<>> when absent); the state is any string and the
\* confidence any number, in hundredths: a well-formed answer, a state
\* outside the five, a confidence above 1 and below 0, an answer without
\* confidence, and the dict of a parse error, which has neither key.
LLMAnswers ==
    { [state |-> <<"focused">>, confidence |-> <<90>>],
      [state |-> <<"sleepy">>,  confidence |-> <<90>>],
      [state |-> <<"drowsy">>,  confidence |-> <<150>>],
      [state |-> <<"drowsy">>,  confidence |-> <<-10>>],
      [state |-> <<"focused">>, confidence |-> <<>>],
      [state |-> <<>>,          confidence |-> <<>>] }

\* ClassificationResult(state=result.get("state", "unknown"),
\* confidence=result.get("confidence", 0.5), ..., source="llm"), lines 295-300
LLMResultOf(result) ==
    [state |-> IF result.state = <<>> THEN "unknown" ELSE result.state[1],
     confidence |-> IF result.confidence = <<>> THEN 50 ELSE result.confidence[1],
     reasoning |-> "llm", source |-> "llm"]

\* the snapshots among two optional ones
Snaps(camera, pc) ==
    {camera[i] : i \in DOMAIN camera} \cup {pc[i] : i \in DOMAIN pc}

\* a task's local variables, when it holds none
Blank == [camera_snap |-> <<>>, pc_snap |-> <<>>, llm |-> <<>>]

\* asyncio.create_task.  tick lists what the current pass of the task's
\* loop has done so far.
NewTask(kind) ==
    [kind |-> kind, pc |-> "start", cancel |-> FALSE, loc |-> Blank,
     tick |-> <<>>]

\* a task that ended by CancelledError counted as still pending
Finished_only_done(t) == tasks[t].pc \in {"done", "crashed"}

\* asyncio.Task.done()
Finished(t) == tasks[t].pc \in {"done", "cancelled", "crashed"}

\* asyncio.Lock.release: the lock passes to the first waiter
Release(lock) ==
    IF lock.waiters = <<>>
    THEN [holder |-> <<>>, waiters |-> <<>>]
    ELSE [holder |-> <<Head(lock.waiters)>>, waiters |-> Tail(lock.waiters)]

\* asyncio.Lock.acquire returns at once
LockFree(lock) == lock.holder = <<>> /\ lock.waiters = <<>>

\* the thread a task is awaiting
ThreadOf(ths, t) == {th \in ths : th.task = t /\ ~th.orphan}

\* What a step of the integration task t has done so far: the globals it
\* may write, its own record, and what it did.
S0(t) ==
    [ failed |-> llm_load_failed, shared |-> shared_llm_backend,
      lock |-> llm_lock, threads |-> threads, backends |-> backends,
      task |-> tasks[t], events |-> {}, classified |-> {}, final |-> <<>>,
      given |-> <<>> ]

\* _integration_loop lines 334-342: build the state and broadcast it
Post(S, final) ==
    [S EXCEPT !.task = [@ EXCEPT !.pc = "broadcast", !.loc = Blank,
                                 !.tick = Append(@, "broadcast")],
              !.events = @ \cup {"broadcast"},
              !.final = <<final>>]

\* _get_final_classification lines 284 and 303
Fallback(S, cs, ps) ==
    Post([S EXCEPT !.events = @ \cup {"fallback"},
                   !.classified = @ \cup Snaps(cs, ps),
                   !.given = <<cs, ps>>],
         classify_unified_fallback(cs, ps))

\* _get_final_classification lines 291-294, the lock held: llm.classify
\* starts in a worker thread
InferStart(S, t, cs, ps, b) ==
    [S EXCEPT !.threads = @ \cup {[kind |-> "classify", backend |-> b, task |-> t,
                                   orphan |-> FALSE,
                                   alive |-> S.backends[b] = "loaded"]},
              !.task = [@ EXCEPT !.pc = "inferring",
                                 !.loc = [Blank EXCEPT !.camera_snap = cs,
                                                       !.pc_snap = ps,
                                                       !.llm = <<b>>]],
              !.events = @ \cup {"inference"},
              !.classified = @ \cup Snaps(cs, ps),
              !.given = <<cs, ps>>]

\* _get_final_classification lines 286-291: async with _llm_lock
InferBegin(S, t, cs, ps, b) ==
    IF LockFree(S.lock)
    THEN InferStart([S EXCEPT !.lock = [holder |-> <<t>>, waiters |-> <<>>]],
                    t, cs, ps, b)
    ELSE [S EXCEPT !.lock = [@ EXCEPT !.waiters = Append(@, t)],
                   !.task = [@ EXCEPT !.pc = "lock_infer",
                                      !.loc = [Blank EXCEPT !.camera_snap = cs,
                                                            !.pc_snap = ps,
                                                            !.llm = <<b>>]]]

\* _get_shared_llm lines 89-116 with a missing model file not remembered
LoadSection_forgets(S, t, cs, ps) ==
    IF S.shared # <<>>
    THEN InferBegin([S EXCEPT !.lock = Release(@)], t, cs, ps, S.shared[1])
    ELSE IF S.failed
    THEN Fallback([S EXCEPT !.lock = Release(@)], cs, ps)
    ELSE IF ~model_file
    THEN Fallback([S EXCEPT !.lock = Release(@),
                            !.events = @ \cup {"load_failed"}], cs, ps)
    ELSE LET b == Len(S.backends) + 1
         IN  [S EXCEPT !.backends = Append(@, "loading"),
                       !.threads = @ \cup {[kind |-> "load", backend |-> b,
                                            task |-> t, orphan |-> FALSE,
                                            alive |-> TRUE]},
                       !.task = [@ EXCEPT !.pc = "loading",
                                          !.loc = [Blank EXCEPT !.camera_snap = cs,
                                                                !.pc_snap = ps,
                                                                !.llm = <<b>>]],
                       !.events = @ \cup {"load"}]

\* _get_shared_llm lines 89-116, the lock held
LoadSection(S, t, cs, ps) ==
    IF S.shared # <<>>
    THEN InferBegin([S EXCEPT !.lock = Release(@)], t, cs, ps, S.shared[1])
    ELSE IF S.failed
    THEN Fallback([S EXCEPT !.lock = Release(@)], cs, ps)
    ELSE IF ~model_file
    THEN Fallback([S EXCEPT !.failed = TRUE, !.lock = Release(@),
                            !.events = @ \cup {"load_failed"}], cs, ps)
    ELSE LET b == Len(S.backends) + 1
         IN  [S EXCEPT !.backends = Append(@, "loading"),
                       !.threads = @ \cup {[kind |-> "load", backend |-> b,
                                            task |-> t, orphan |-> FALSE,
                                            alive |-> TRUE]},
                       !.task = [@ EXCEPT !.pc = "loading",
                                          !.loc = [Blank EXCEPT !.camera_snap = cs,
                                                                !.pc_snap = ps,
                                                                !.llm = <<b>>]],
                       !.events = @ \cup {"load"}]

\* _get_shared_llm lines 79-88, then the rest of _get_final_classification
GetSharedLLM(S, t, cs, ps) ==
    IF config.model_tier = "none" THEN Fallback(S, cs, ps)
    ELSE IF S.failed THEN Fallback(S, cs, ps)
    ELSE IF S.shared # <<>> THEN InferBegin(S, t, cs, ps, S.shared[1])
    ELSE IF LockFree(S.lock)
    THEN LoadSection([S EXCEPT !.lock = [holder |-> <<t>>, waiters |-> <<>>]],
                     t, cs, ps)
    ELSE [S EXCEPT !.lock = [@ EXCEPT !.waiters = Append(@, t)],
                   !.task = [@ EXCEPT !.pc = "lock_load",
                                      !.loc = [Blank EXCEPT !.camera_snap = cs,
                                                            !.pc_snap = ps]]]

\* _get_final_classification asking the backend whatever the rules said
GetFinalClassification_always_llm(S, t, cs, ps) ==
    GetSharedLLM([S EXCEPT !.events = @ \cup {"classify", "request"},
                           !.classified = @ \cup Snaps(cs, ps),
                           !.given = <<cs, ps>>,
                           !.task = [@ EXCEPT !.tick = <<"classify">>]],
                 t, cs, ps)

\* _get_final_classification lines 276-284
GetFinalClassification(S, t, cs, ps) ==
    LET rule_result == classify_unified(cs, ps)
        S1 == [S EXCEPT !.events = @ \cup {"classify"},
                        !.classified = @ \cup Snaps(cs, ps),
                        !.given = <<cs, ps>>,
                        !.task = [@ EXCEPT !.tick = <<"classify">>]]
    IN  IF rule_result.state # None
        THEN Post(S1, rule_result)
        ELSE GetSharedLLM([S1 EXCEPT !.events = @ \cup {"request"}], t, cs, ps)

\* _integration_loop lines 318-332: one pass from the loop's head
LoopHead(S, t) ==
    IF ~should_monitor
    THEN [S EXCEPT !.task = [@ EXCEPT !.pc = "done", !.loc = Blank, !.tick = <<>>]]
    ELSE IF paused
    THEN [S EXCEPT !.task = [@ EXCEPT !.pc = "sleep", !.loc = Blank, !.tick = <<>>]]
    ELSE IF latest_camera_snapshot = <<>> /\ latest_pc_snapshot = <<>>
    THEN [S EXCEPT !.task = [@ EXCEPT !.pc = "sleep", !.loc = Blank, !.tick = <<>>]]
    ELSE GetFinalClassification(S, t, latest_camera_snapshot, latest_pc_snapshot)

\* the step of task t takes effect
Commit(t, S, act) ==
    /\ llm_load_failed' = S.failed
    /\ shared_llm_backend' = S.shared
    /\ llm_lock' = S.lock
    /\ threads' = S.threads
    /\ backends' = S.backends
    /\ tasks' = [tasks EXCEPT ![t] = S.task]
    /\ last_step' = [act |-> act, events |-> S.events,
                     classified |-> S.classified, final |-> S.final,
                     given |-> S.given]

Runs(t, kind, pcs) ==
    /\ t \in DOMAIN tasks
    /\ tasks[t].kind = kind
    /\ tasks[t].pc \in pcs
    /\ ~tasks[t].cancel

\* an action of the orchestrator leaves the notification model alone
Quiet(act) ==
    /\ last_step' = [act |-> act, events |-> {}, classified |-> {}, final |-> <<>>, given |-> <<>>]
    /\ UNCHANGED <<nvars, hvars, dvars>>

(* ---- _integration_loop ---- *)

\* the task starts, or its sleep ends: lines 316-332
IntWake(t) ==
    /\ Runs(t, "integration", {"start", "sleep"})
    /\ notification_engine' =
          IF tasks[t].pc = "start" THEN "engine" ELSE notification_engine
    /\ Commit(t, LoopHead(S0(t), t), "integration_wake")
    /\ UNCHANGED <<should_monitor, paused, config, latest_camera_snapshot,
                   latest_pc_snapshot, monitoring_tasks, stops, model_file,
                   resumes, config_changes, clock, nvars, hvars, dvars>>

\* a task waiting for _llm_lock receives it: line 88 or line 291
IntLockGranted(t) ==
    /\ Runs(t, "integration", {"lock_load", "lock_infer"})
    /\ llm_lock.holder = <<t>>
    /\ LET loc == tasks[t].loc
       IN  Commit(t, IF tasks[t].pc = "lock_load"
                     THEN LoadSection(S0(t), t, loc.camera_snap, loc.pc_snap)
                     ELSE InferStart(S0(t), t, loc.camera_snap, loc.pc_snap,
                                     loc.llm[1]),
                  "lock_granted")
    /\ UNCHANGED <<should_monitor, paused, config, latest_camera_snapshot,
                   latest_pc_snapshot, notification_engine, monitoring_tasks,
                   stops, model_file, resumes, config_changes, clock, nvars, hvars, dvars>>

\* backend.load returns or raises in its thread: lines 116-122, then
\* _get_final_classification from line 283
IntLoadDone(t) ==
    /\ Runs(t, "integration", {"loading"})
    /\ \E ok \in BOOLEAN :
         LET loc == tasks[t].loc
             b == loc.llm[1]
             S1 == [S0(t) EXCEPT !.threads = @ \ ThreadOf(threads, t),
                                 !.lock = Release(@)]
         IN  Commit(t, IF ok
                       THEN InferBegin([S1 EXCEPT !.backends[b] = "loaded",
                                                  !.shared = <<b>>],
                                       t, loc.camera_snap, loc.pc_snap, b)
                       ELSE Fallback([S1 EXCEPT !.backends[b] = "failed",
                                                !.failed = TRUE,
                                                !.events = @ \cup {"load_failed"}],
                                     loc.camera_snap, loc.pc_snap),
                    "load_done")
    /\ UNCHANGED <<should_monitor, paused, config, latest_camera_snapshot,
                   latest_pc_snapshot, notification_engine, monitoring_tasks,
                   stops, model_file, resumes, config_changes, clock, nvars, hvars, dvars>>

\* llm.classify returns or raises in its thread: lines 291-303.  It raises
\* when the backend held no model as the call began; when the model's answer
\* is not JSON it returns a dict with parse_error and without a state, of
\* which line 296 makes the state "unknown".
IntInferDone(t) ==
    /\ Runs(t, "integration", {"inferring"})
    /\ \E th \in ThreadOf(threads, t) :
       \E outcome \in (IF th.alive THEN LLMStates \cup {"parse_error"} ELSE {})
                          \cup {"raise"} :
         LET loc == tasks[t].loc
             S1 == [S0(t) EXCEPT !.threads = @ \ {th},
                                 !.lock = Release(@),
                                 !.events = {outcome},
                                 !.given = <<loc.camera_snap, loc.pc_snap>>]
         IN  Commit(t, IF outcome = "raise"
                       THEN Fallback(S1, loc.camera_snap, loc.pc_snap)
                       ELSE Post(S1, LLMResult(IF outcome = "parse_error"
                                               THEN "unknown" ELSE outcome)),
                    "infer_done")
    /\ UNCHANGED <<should_monitor, paused, config, latest_camera_snapshot,
                   latest_pc_snapshot, notification_engine, monitoring_tasks,
                   stops, model_file, resumes, config_changes, clock, nvars, hvars, dvars>>

\* llm.classify returns in its thread any of the dicts of LLMAnswers, or
\* raises: lines 291-303
IntInferAnswers(t) ==
    /\ Runs(t, "integration", {"inferring"})
    /\ \E th \in ThreadOf(threads, t) :
       \* the dict returned, <<>> when the call raises
       \E outcome \in (IF th.alive THEN {<<a>> : a \in LLMAnswers} ELSE {})
                          \cup {<<>>} :
         LET loc == tasks[t].loc
             S1 == [S0(t) EXCEPT !.threads = @ \ {th},
                                 !.lock = Release(@),
                                 !.events = IF outcome = <<>> THEN {"raise"}
                                            ELSE {"answer"},
                                 !.given = <<loc.camera_snap, loc.pc_snap>>]
         IN  Commit(t, IF outcome = <<>>
                       THEN Fallback(S1, loc.camera_snap, loc.pc_snap)
                       ELSE Post(S1, LLMResultOf(outcome[1])),
                    "infer_done")
    /\ UNCHANGED <<should_monitor, paused, config, latest_camera_snapshot,
                   latest_pc_snapshot, notification_engine, monitoring_tasks,
                   stops, model_file, resumes, config_changes, clock, nvars, hvars, dvars>>

\* broadcast_state returns: the history write of lines 345-352 begins
IntBroadcastDone(t) ==
    /\ Runs(t, "integration", {"broadcast"})
    /\ tasks' = [tasks EXCEPT ![t].pc = "log", ![t].tick = Append(@, "log")]
    /\ last_step' = [act |-> "broadcast_done", events |-> {"log"},
                     classified |-> {}, final |-> <<>>, given |-> <<>>]
    /\ UNCHANGED <<should_monitor, paused, config, latest_camera_snapshot,
                   latest_pc_snapshot, notification_engine, shared_llm_backend,
                   llm_load_failed, llm_lock, monitoring_tasks, threads,
                   backends, stops, model_file, resumes, config_changes, clock,
                   nvars, hvars, dvars>>

\* log_state returns: evaluate runs, lines 355-373
IntLogDone(t) ==
    /\ Runs(t, "integration", {"log"})
    /\ \E notification \in BOOLEAN :
         tasks' = [tasks EXCEPT ![t].pc = IF notification THEN "notify" ELSE "sleep",
                                ![t].loc = Blank,
                                ![t].tick = IF notification
                                            THEN Append(@, "evaluate") ELSE <<>>]
    /\ last_step' = [act |-> "log_done", events |-> {"evaluate"},
                     classified |-> {}, final |-> <<>>, given |-> <<>>]
    /\ UNCHANGED <<should_monitor, paused, config, latest_camera_snapshot,
                   latest_pc_snapshot, notification_engine, shared_llm_backend,
                   llm_load_failed, llm_lock, monitoring_tasks, threads,
                   backends, stops, model_file, resumes, config_changes, clock,
                   nvars, hvars, dvars>>

\* log_state raises (the INSERT or the commit fails): nothing in
\* _integration_loop catches it, the exception ends the task
IntLogFails(t) ==
    /\ Runs(t, "integration", {"log"})
    /\ tasks' = [tasks EXCEPT ![t].pc = "crashed", ![t].loc = Blank]
    /\ last_step' = [act |-> "log_failed", events |-> {"log_failed"},
                     classified |-> {}, final |-> <<>>, given |-> <<>>]
    /\ UNCHANGED <<should_monitor, paused, config, latest_camera_snapshot,
                   latest_pc_snapshot, notification_engine, shared_llm_backend,
                   llm_load_failed, llm_lock, monitoring_tasks, threads,
                   backends, stops, model_file, resumes, config_changes, clock,
                   nvars, hvars, dvars>>

\* log_notification and broadcast_notification return: lines 362-373
IntNotifyDone(t) ==
    /\ Runs(t, "integration", {"notify"})
    /\ tasks' = [tasks EXCEPT ![t].pc = "sleep", ![t].tick = <<>>]
    /\ last_step' = [act |-> "notify_done", events |-> {"notification"},
                     classified |-> {}, final |-> <<>>, given |-> <<>>]
    /\ UNCHANGED <<should_monitor, paused, config, latest_camera_snapshot,
                   latest_pc_snapshot, notification_engine, shared_llm_backend,
                   llm_load_failed, llm_lock, monitoring_tasks, threads,
                   backends, stops, model_file, resumes, config_changes, clock,
                   nvars, hvars, dvars>>

(* ---- _camera_loop and _pc_monitor_loop ---- *)

\* the camera task starts, or its sleep ends: lines 151-197.  The camera
\* may be disabled or fail to open; otherwise read_frame starts in a thread,
\* which captures the frame at some moment before it returns.
CamWake(t) ==
    /\ Runs(t, "camera", {"start", "sleep"})
    /\ \/ /\ tasks[t].pc = "start"
          /\ tasks' = [tasks EXCEPT ![t].pc = "done"]
       \/ tasks' = [tasks EXCEPT ![t] =
             IF ~should_monitor THEN [@ EXCEPT !.pc = "done"]
             ELSE IF paused THEN [@ EXCEPT !.pc = "sleep"]
             ELSE [@ EXCEPT !.pc = "reading",
                            !.loc = [Blank EXCEPT !.camera_snap =
                                        <<[epoch |-> resumes, t |-> clock]>>]]]
    /\ Quiet("camera_wake")
    /\ UNCHANGED <<should_monitor, paused, config, latest_camera_snapshot,
                   latest_pc_snapshot, notification_engine, shared_llm_backend,
                   llm_load_failed, llm_lock, monitoring_tasks, threads,
                   backends, stops, model_file, resumes, config_changes, clock>>

\* read_frame returns: lines 197-213.  The frame was captured between the
\* call and now; the snapshot is stored when estimation_interval has passed.
CamReadDone(t) ==
    /\ Runs(t, "camera", {"reading"})
    /\ LET began == tasks[t].loc.camera_snap[1]
       IN  \/ UNCHANGED latest_camera_snapshot
           \/ \E face \in CameraKinds, e \in began.epoch .. resumes :
                latest_camera_snapshot' =
                   <<CameraSnapshot(face, e,
                                    IF e = resumes THEN clock ELSE began.t)>>
    /\ tasks' = [tasks EXCEPT ![t].pc = "sleep", ![t].loc = Blank]
    /\ Quiet("camera_read")
    /\ UNCHANGED <<should_monitor, paused, config, latest_pc_snapshot,
                   notification_engine, shared_llm_backend, llm_load_failed,
                   llm_lock, monitoring_tasks, threads, backends, stops,
                   model_file, resumes, config_changes, clock>>

\* the usage task starts, or its sleep ends: lines 231-261
PcWake(t) ==
    /\ Runs(t, "pc", {"start", "sleep"})
    /\ IF ~should_monitor
       THEN /\ tasks' = [tasks EXCEPT ![t].pc = "done"]
            /\ UNCHANGED latest_pc_snapshot
       ELSE /\ tasks' = [tasks EXCEPT ![t].pc = "sleep"]
            /\ IF paused
               THEN UNCHANGED latest_pc_snapshot
               ELSE \/ UNCHANGED latest_pc_snapshot
                    \/ \E usage \in UsageKinds :
                         latest_pc_snapshot' =
                            <<UsageSnapshot(usage, resumes, clock)>>
    /\ Quiet("pc_wake")
    /\ UNCHANGED <<should_monitor, paused, config, latest_camera_snapshot,
                   notification_engine, shared_llm_backend, llm_load_failed,
                   llm_lock, monitoring_tasks, threads, backends, stops,
                   model_file, resumes, config_changes, clock>>

(* ---- cancellation and threads ---- *)

\* CancelledError reaches a task at its suspension point: a lock it holds is
\* released by `async with`, a thread it awaited keeps running
Cancelled(t) ==
    /\ t \in DOMAIN tasks
    /\ tasks[t].cancel
    /\ ~Finished(t)
    /\ tasks' = [tasks EXCEPT ![t] = [@ EXCEPT !.pc = "cancelled",
                                               !.cancel = FALSE,
                                               !.loc = Blank,
                                               !.tick = <<>>]]
    /\ llm_lock' =
          IF llm_lock.holder = <<t>> THEN Release(llm_lock)
          ELSE [llm_lock EXCEPT !.waiters = SelectSeq(@, LAMBDA w : w # t)]
    /\ threads' = (threads \ ThreadOf(threads, t))
                    \cup {[th EXCEPT !.orphan = TRUE] : th \in ThreadOf(threads, t)}
    /\ Quiet("cancelled")
    /\ UNCHANGED <<should_monitor, paused, config, latest_camera_snapshot,
                   latest_pc_snapshot, notification_engine, shared_llm_backend,
                   llm_load_failed, monitoring_tasks, backends, stops,
                   model_file, resumes, config_changes, clock>>

\* a thread nobody awaits any more returns; a backend it loaded is dropped
ThreadEnds(th) ==
    /\ th \in threads
    /\ th.orphan
    /\ threads' = threads \ {th}
    /\ backends' = IF th.kind = "load"
                   THEN [backends EXCEPT ![th.backend] = "dropped"]
                   ELSE backends
    /\ Quiet("thread_ends")
    /\ UNCHANGED <<should_monitor, paused, config, latest_camera_snapshot,
                   latest_pc_snapshot, notification_engine, shared_llm_backend,
                   llm_load_failed, llm_lock, monitoring_tasks, tasks, stops,
                   model_file, resumes, config_changes, clock>>

(* ---- the callbacks of the API ---- *)

\* POST /engine/start, then start_monitoring, at most n times
StartUpTo(n) ==
    /\ ~should_monitor
    /\ Len(tasks) < 3 * n
    /\ should_monitor' = TRUE
    /\ latest_camera_snapshot' = <<>>
    /\ latest_pc_snapshot' = <<>>
    /\ tasks' = tasks \o <<NewTask("camera"), NewTask("pc"), NewTask("integration")>>
    /\ monitoring_tasks' = monitoring_tasks \o
                             <<Len(tasks) + 1, Len(tasks) + 2, Len(tasks) + 3>>
    /\ Quiet("start")
    /\ UNCHANGED <<paused, config, notification_engine, shared_llm_backend,
                   llm_load_failed, llm_lock, threads, backends, stops,
                   model_file, resumes, config_changes, clock>>

Start == StartUpTo(MaxStarts)

\* stop_monitoring lines 463-466, once gather has returned
AfterGather(stop) ==
    IF shared_llm_backend # <<>>
    THEN [stop EXCEPT !.pc = "unloading", !.backend = shared_llm_backend]
    ELSE [stop EXCEPT !.pc = "done"]

\* POST /engine/stop, then stop_monitoring lines 454-462.  gather of no
\* task returns without suspending.
StopBegin ==
    /\ should_monitor
    /\ should_monitor' = FALSE
    /\ tasks' = [t \in DOMAIN tasks |->
                   IF (\E i \in DOMAIN monitoring_tasks : monitoring_tasks[i] = t)
                      /\ ~Finished(t)
                   THEN [tasks[t] EXCEPT !.cancel = TRUE]
                   ELSE tasks[t]]
    /\ LET stop == [pc |-> "gather",
                    waits |-> {monitoring_tasks[i] : i \in DOMAIN monitoring_tasks},
                    backend |-> <<>>]
       IN  stops' = Append(stops, IF monitoring_tasks = <<>>
                                  THEN AfterGather(stop) ELSE stop)
    /\ Quiet("stop")
    /\ UNCHANGED <<paused, config, latest_camera_snapshot, latest_pc_snapshot,
                   notification_engine, shared_llm_backend, llm_load_failed,
                   llm_lock, monitoring_tasks, threads, backends, model_file,
                   resumes, config_changes, clock>>

\* gather returns: stop_monitoring lines 462-468
StopGathered(s) ==
    /\ s \in DOMAIN stops
    /\ stops[s].pc = "gather"
    /\ \A t \in stops[s].waits : Finished(t)
    /\ monitoring_tasks' = <<>>
    /\ stops' = [stops EXCEPT ![s] = AfterGather(@)]
    /\ Quiet("gathered")
    /\ UNCHANGED <<should_monitor, paused, config, latest_camera_snapshot,
                   latest_pc_snapshot, notification_engine, shared_llm_backend,
                   llm_load_failed, llm_lock, tasks, threads, backends,
                   model_file, resumes, config_changes, clock>>

\* LLMBackend.unload runs in its thread
Unload(s) ==
    /\ s \in DOMAIN stops
    /\ stops[s].pc = "unloading"
    /\ backends' = [backends EXCEPT ![stops[s].backend[1]] =
                       IF @ = "loaded" THEN "unloaded" ELSE @]
    /\ stops' = [stops EXCEPT ![s].pc = "unloaded"]
    /\ last_step' = [act |-> "unload", events |-> {"unload"}, classified |-> {}, final |-> <<>>, given |-> <<>>]
    /\ UNCHANGED <<should_monitor, paused, config, latest_camera_snapshot,
                   latest_pc_snapshot, notification_engine, shared_llm_backend,
                   llm_load_failed, llm_lock, monitoring_tasks, tasks, threads,
                   model_file, resumes, config_changes, clock, nvars, hvars, dvars>>

\* the unload has returned: stop_monitoring lines 471-473
StopUnloaded(s) ==
    /\ s \in DOMAIN stops
    /\ stops[s].pc = "unloaded"
    /\ shared_llm_backend' = <<>>
    /\ stops' = [stops EXCEPT ![s].pc = "done"]
    /\ Quiet("stopped")
    /\ UNCHANGED <<should_monitor, paused, config, latest_camera_snapshot,
                   latest_pc_snapshot, notification_engine, llm_load_failed,
                   llm_lock, monitoring_tasks, tasks, threads, backends,
                   model_file, resumes, config_changes, clock>>

\* POST /engine/pause, then pause_monitoring
Pause ==
    /\ ~paused
    /\ should_monitor
    /\ resumes < MaxResumes
    /\ paused' = TRUE
    /\ Quiet("pause")
    /\ UNCHANGED <<should_monitor, config, latest_camera_snapshot,
                   latest_pc_snapshot, notification_engine, shared_llm_backend,
                   llm_load_failed, llm_lock, monitoring_tasks, tasks, threads,
                   backends, stops, model_file, resumes, config_changes, clock>>

\* POST /engine/resume, then resume_monitoring; resumes counts them
Resume ==
    /\ paused
    /\ latest_camera_snapshot' = <<>>
    /\ latest_pc_snapshot' = <<>>
    /\ paused' = FALSE
    /\ resumes' = resumes + 1
    /\ Quiet("resume")
    /\ UNCHANGED <<should_monitor, config, notification_engine,
                   shared_llm_backend, llm_load_failed, llm_lock,
                   monitoring_tasks, tasks, threads, backends, stops,
                   model_file, clock, config_changes>>

\* apply_config: the settings change
ApplyConfig ==
    /\ config_changes < MaxConfigChanges
    /\ \E tier \in ModelTiers : config' = [model_tier |-> tier]
    /\ llm_load_failed' = FALSE
    /\ config_changes' = config_changes + 1
    /\ Quiet("apply_config")
    /\ UNCHANGED <<should_monitor, paused, latest_camera_snapshot,
                   latest_pc_snapshot, notification_engine, shared_llm_backend,
                   llm_lock, monitoring_tasks, tasks, threads, backends, stops,
                   model_file, resumes, clock>>

\* the download of the text model ends: the model file appears
ModelDownloaded ==
    /\ ~model_file
    /\ model_file' = TRUE
    /\ Quiet("downloaded")
    /\ UNCHANGED <<should_monitor, paused, config, latest_camera_snapshot,
                   latest_pc_snapshot, notification_engine, shared_llm_backend,
                   llm_load_failed, llm_lock, monitoring_tasks, tasks, threads,
                   backends, stops, resumes, config_changes, clock>>

(* ---- the specifications of Part II ---- *)

\* Part I at rest, for the runs that exercise the orchestrator alone
NIdle ==
    /\ ncfg = CHOOSE c \in Configs : TRUE
    /\ engine = NewEngine(ncfg)
    /\ t0 = 0
    /\ now = 0
    /\ wall_date = 0
    /\ last_call = [op |-> "init"]
    /\ resets = 0
    /\ run_since_reset = <<>>
    /\ emitted = <<>>

OrchInit == OInit /\ NIdle /\ HIdle /\ DIdle

\* start, stop and ticks
ONext ==
    \/ Start
    \/ StopBegin
    \/ \E t \in DOMAIN tasks : IntWake(t)
    \/ \E t \in DOMAIN tasks : IntLockGranted(t)
    \/ \E t \in DOMAIN tasks : IntLoadDone(t)
    \/ \E t \in DOMAIN tasks : IntInferDone(t)
    \/ \E t \in DOMAIN tasks : IntBroadcastDone(t)
    \/ \E t \in DOMAIN tasks : IntLogDone(t)
    \/ \E t \in DOMAIN tasks : IntNotifyDone(t)
    \/ \E t \in DOMAIN tasks : CamWake(t)
    \/ \E t \in DOMAIN tasks : CamReadDone(t)
    \/ \E t \in DOMAIN tasks : PcWake(t)
    \/ \E t \in DOMAIN tasks : Cancelled(t)
    \/ \E s \in DOMAIN stops : StopGathered(s)
    \/ \E s \in DOMAIN stops : Unload(s)
    \/ \E s \in DOMAIN stops : StopUnloaded(s)
    \/ \E th \in threads : ThreadEnds(th)

OrchSpec == OrchInit /\ [][ONext]_vars

\* one run with pause, resume and a settings change
PNext ==
    \/ Start
    \/ Pause
    \/ Resume
    \/ ApplyConfig
    \/ \E t \in DOMAIN tasks : IntWake(t)
    \/ \E t \in DOMAIN tasks : IntLoadDone(t)
    \/ \E t \in DOMAIN tasks : IntInferDone(t)
    \/ \E t \in DOMAIN tasks : IntBroadcastDone(t)
    \/ \E t \in DOMAIN tasks : IntLogDone(t)
    \/ \E t \in DOMAIN tasks : IntNotifyDone(t)
    \/ \E t \in DOMAIN tasks : CamWake(t)
    \/ \E t \in DOMAIN tasks : CamReadDone(t)
    \/ \E t \in DOMAIN tasks : PcWake(t)

PauseSpec == OrchInit /\ [][PNext]_vars

(* ---- time, for the age of snapshots ---- *)

\* the clock stops advancing here
MaxClock == 40

\* EngineConfig.integration_interval, in seconds
integration_interval == 10

\* _SNAPSHOT_MAX_AGE_SECONDS, as tests/test_integration_skip.py expects it
SNAPSHOT_MAX_AGE_SECONDS == 30

\* one integration interval passes
TimePasses ==
    /\ clock < MaxClock
    /\ clock' = clock + integration_interval
    /\ Quiet("time")
    /\ UNCHANGED <<should_monitor, paused, config, latest_camera_snapshot,
                   latest_pc_snapshot, notification_engine, shared_llm_backend,
                   llm_load_failed, llm_lock, monitoring_tasks, tasks, threads,
                   backends, stops, model_file, resumes, config_changes>>

\* one run in rule-only mode, with time
SNext ==
    \/ Start
    \/ TimePasses
    \/ \E t \in DOMAIN tasks : IntWake(t)
    \/ \E t \in DOMAIN tasks : IntBroadcastDone(t)
    \/ \E t \in DOMAIN tasks : IntLogDone(t)
    \/ \E t \in DOMAIN tasks : IntNotifyDone(t)
    \/ \E t \in DOMAIN tasks : CamWake(t)
    \/ \E t \in DOMAIN tasks : CamReadDone(t)
    \/ \E t \in DOMAIN tasks : PcWake(t)

StaleInit == OIdle /\ NIdle /\ HIdle /\ DIdle

StaleSpec == StaleInit /\ [][SNext]_vars

(* ---- faults: a missing model, failing loads, inferences and writes ---- *)

\* one run in which loads, inferences and history writes may fail, the
\* model file may appear and the settings may change
FNext ==
    \/ Start
    \/ ApplyConfig
    \/ ModelDownloaded
    \/ \E t \in DOMAIN tasks : IntWake(t)
    \/ \E t \in DOMAIN tasks : IntLoadDone(t)
    \/ \E t \in DOMAIN tasks : IntInferDone(t)
    \/ \E t \in DOMAIN tasks : IntBroadcastDone(t)
    \/ \E t \in DOMAIN tasks : IntLogDone(t)
    \/ \E t \in DOMAIN tasks : IntLogFails(t)
    \/ \E t \in DOMAIN tasks : IntNotifyDone(t)
    \/ \E t \in DOMAIN tasks : CamWake(t)
    \/ \E t \in DOMAIN tasks : CamReadDone(t)
    \/ \E t \in DOMAIN tasks : PcWake(t)

FaultSpec == OrchInit /\ [][FNext]_vars

(* ---- the answers of the arbitration backend ---- *)

\* one run in which the model's answer is any JSON object
ANext ==
    \/ Start
    \/ \E t \in DOMAIN tasks : IntWake(t)
    \/ \E t \in DOMAIN tasks : IntLoadDone(t)
    \/ \E t \in DOMAIN tasks : IntInferAnswers(t)
    \/ \E t \in DOMAIN tasks : IntBroadcastDone(t)
    \/ \E t \in DOMAIN tasks : IntLogDone(t)
    \/ \E t \in DOMAIN tasks : IntNotifyDone(t)
    \/ \E t \in DOMAIN tasks : CamWake(t)
    \/ \E t \in DOMAIN tasks : CamReadDone(t)
    \/ \E t \in DOMAIN tasks : PcWake(t)

AnswerSpec == OrchInit /\ [][ANext]_vars

(* ---- the integrator ---- *)

\* IntegratedState, the dataclass of integrator.py lines 14-23
IntegratedState(state, confidence, camera_state, pc_state, reasoning, timestamp) ==
    [state |-> state, confidence |-> confidence, camera_state |-> camera_state,
     pc_state |-> pc_state, reasoning |-> reasoning, timestamp |-> timestamp]

\* IntegratedState.to_dict, lines 25-34: the six keys it copies
to_dict(self) ==
    [state |-> self.state, confidence |-> self.confidence,
     camera_state |-> self.camera_state, pc_state |-> self.pc_state,
     reasoning |-> self.reasoning, timestamp |-> self.timestamp]

\* build_integrated_state(final, camera_snap, pc_snap), which main.py
\* imports from integrator.py: the result is timestamped and copied into an
\* IntegratedState whose camera_state and pc_state are None; time is what
\* time.time() returns
build_integrated_state(final, camera_snap, pc_snap, time) ==
    IntegratedState(final.state, final.confidence, None, None,
                    final.reasoning, time)

\* the row that log_state inserts, main.py lines 345-352 and store.py
\* lines 92-99
StateLogRow(integrated, final) ==
    [timestamp |-> integrated.timestamp,
     camera_state |-> integrated.camera_state,
     pc_state |-> integrated.pc_state,
     integrated_state |-> integrated.state,
     confidence |-> integrated.confidence,
     source |-> final.source]

\* the ClassificationResults of the calls
ResultStates == {"focused", "drowsy", "distracted", "away", "unknown"}
ResultConfidences == {0, 50, 90, 100}
ResultReasonings == {"", "clear focused", "llm"}
ResultSources == {"rule", "llm"}
ClassificationResults ==
    [state : ResultStates, confidence : ResultConfidences,
     reasoning : ResultReasonings, source : ResultSources]

\* what time.time() returns
Times == {10, 20}

IntegrateInit == OIdle /\ NIdle /\ HIdle /\ DIdle

\* _integration_loop lines 334-352 on one final classification: the state
\* built, the dict that is published and broadcast, the row that is logged
Integrate ==
    /\ last_step.act = "init"
    /\ \E final \in ClassificationResults, time \in Times :
         LET integrated == build_integrated_state(final, latest_camera_snapshot,
                                                  latest_pc_snapshot, time)
         IN  last_step' = [act |-> "integrate", events |-> {"broadcast", "log"},
                           classified |-> {}, final |-> <<final>>, given |-> <<>>,
                           integrated |-> integrated,
                           state_data |-> to_dict(integrated),
                           logged |-> StateLogRow(integrated, final)]
    /\ UNCHANGED <<should_monitor, paused, config, latest_camera_snapshot,
                   latest_pc_snapshot, notification_engine, shared_llm_backend,
                   llm_load_failed, llm_lock, monitoring_tasks, tasks, threads,
                   backends, stops, model_file, resumes, config_changes, clock>>
    /\ UNCHANGED <<nvars, hvars, dvars>>

INext == Integrate

IntegrateSpec == IntegrateInit /\ [][INext]_vars

(* ---- restarts in rule-only mode ---- *)

\* start_monitoring is called at most this many times in RestartSpec
MaxRestarts == 3

Restart == StartUpTo(MaxRestarts)

\* _camera_loop lines 151-153 with camera_enabled off: the task returns
CamDisabled(t) ==
    /\ Runs(t, "camera", {"start"})
    /\ tasks' = [tasks EXCEPT ![t].pc = "done"]
    /\ Quiet("camera_disabled")
    /\ UNCHANGED <<should_monitor, paused, config, latest_camera_snapshot,
                   latest_pc_snapshot, notification_engine, shared_llm_backend,
                   llm_load_failed, llm_lock, monitoring_tasks, threads,
                   backends, stops, model_file, resumes, config_changes, clock>>

\* starts and stops with the camera disabled and no model
RNext ==
    \/ Restart
    \/ StopBegin
    \/ \E t \in DOMAIN tasks : IntWake(t)
    \/ \E t \in DOMAIN tasks : IntBroadcastDone(t)
    \/ \E t \in DOMAIN tasks : IntLogDone(t)
    \/ \E t \in DOMAIN tasks : IntNotifyDone(t)
    \/ \E t \in DOMAIN tasks : CamDisabled(t)
    \/ \E t \in DOMAIN tasks : PcWake(t)
    \/ \E t \in DOMAIN tasks : Cancelled(t)
    \/ \E s \in DOMAIN stops : StopGathered(s)

RestartInit == OIdle /\ NIdle /\ HIdle /\ DIdle

RestartSpec == RestartInit /\ [][RNext]_vars

(* ---- pauses around stops and starts ---- *)

\* starts, stops, pauses and resumes with the camera disabled and no model
QNext ==
    \/ Start
    \/ StopBegin
    \/ Pause
    \/ Resume
    \/ \E t \in DOMAIN tasks : IntWake(t)
    \/ \E t \in DOMAIN tasks : IntBroadcastDone(t)
    \/ \E t \in DOMAIN tasks : IntLogDone(t)
    \/ \E t \in DOMAIN tasks : IntNotifyDone(t)
    \/ \E t \in DOMAIN tasks : CamDisabled(t)
    \/ \E t \in DOMAIN tasks : PcWake(t)
    \/ \E t \in DOMAIN tasks : Cancelled(t)
    \/ \E s \in DOMAIN stops : StopGathered(s)

SuspendSpec == RestartInit /\ [][QNext]_vars

(* ---- one start and one stop, with fair scheduling ---- *)

\* start_monitoring is called once
StartOnce == StartUpTo(1)

\* the steps of the three loops; with one integration loop _llm_lock is
\* never contended
LoopSteps ==
    \/ \E t \in DOMAIN tasks : IntWake(t)
    \/ \E t \in DOMAIN tasks : IntLoadDone(t)
    \/ \E t \in DOMAIN tasks : IntInferDone(t)
    \/ \E t \in DOMAIN tasks : IntBroadcastDone(t)
    \/ \E t \in DOMAIN tasks : IntLogDone(t)
    \/ \E t \in DOMAIN tasks : IntNotifyDone(t)
    \/ \E t \in DOMAIN tasks : CamWake(t)
    \/ \E t \in DOMAIN tasks : CamReadDone(t)
    \/ \E t \in DOMAIN tasks : PcWake(t)

LNext ==
    \/ StartOnce
    \/ StopBegin
    \/ LoopSteps
    \/ \E t \in DOMAIN tasks : Cancelled(t)
    \/ \E s \in DOMAIN stops : StopGathered(s)
    \/ \E s \in DOMAIN stops : Unload(s)
    \/ \E s \in DOMAIN stops : StopUnloaded(s)
    \/ \E th \in threads : ThreadEnds(th)

\* The event loop runs every task that is ready, so a pending
\* CancelledError is delivered and a gather whose tasks are done returns;
\* a worker thread that was started runs to its end.
Fairness ==
    /\ WF_vars(\E t \in DOMAIN tasks : Cancelled(t))
    /\ WF_vars(\E s \in DOMAIN stops : StopGathered(s))
    /\ WF_vars(\E s \in DOMAIN stops : Unload(s))
    /\ WF_vars(\E s \in DOMAIN stops : StopUnloaded(s))
    /\ WF_vars(\E th \in threads : ThreadEnds(th))

StopLiveSpec == OrchInit /\ [][LNext]_vars /\ Fairness

-----------------------------------------------------------------------------
(* The two classifiers of rule_classifier.py as pure functions: the
   snapshot cells start with any pair of optional snapshots of the sets
   below, and one call of classify_unified or classify_unified_fallback is
   made on them.  The values lie on, just below and just above the
   thresholds of lines 26-35. *)

RatioValues == {<<>>, <<AWAY_FACE_NOT_DETECTED_RATIO>>,
                <<AWAY_FACE_NOT_DETECTED_RATIO + 1>>}

EarValues == {<<>>, <<FOCUSED_RELAXED_MIN_EAR>>, <<FOCUSED_RELAXED_MIN_EAR + 1>>,
              <<FOCUSED_MIN_EAR>>, <<FOCUSED_MIN_EAR + 1>>}

YawValues == {0, FOCUSED_MAX_YAW, FALLBACK_DISTRACTED_YAW,
              FALLBACK_DISTRACTED_YAW + 1, FOCUSED_MULTI_MONITOR_MAX_YAW,
              0 - 50}

PitchValues == {0 - 3, FOCUSED_MAX_PITCH, 0 - FOCUSED_MAX_PITCH}

HeadPoses ==
    {<<>>} \cup {<<[yaw |-> y, pitch |-> p]>> : y \in YawValues, p \in PitchValues}

IdleSecondsValues == {0, PC_NOT_IDLE_MAX_SECONDS, PC_NOT_IDLE_MAX_SECONDS + 1}

AppSwitchValues == {FALLBACK_DISTRACTED_APP_SWITCHES,
                    FALLBACK_DISTRACTED_APP_SWITCHES + 1}

UniqueAppValues == {FALLBACK_DISTRACTED_UNIQUE_APPS,
                    FALLBACK_DISTRACTED_UNIQUE_APPS + 1}

\* the optional camera snapshots handed to the classifiers
CameraInputs ==
    {<<>>} \cup
    {<<[kind |-> "face", face_detected |-> fd, face_not_detected_ratio |-> fndr,
        ear_average |-> ear, perclos_drowsy |-> pd, yawning |-> yw,
        head_pose |-> hp, epoch |-> 0, t |-> 0]>> :
        fd \in BOOLEAN, fndr \in RatioValues, ear \in EarValues,
        pd \in BOOLEAN, yw \in BOOLEAN, hp \in HeadPoses}

\* the optional usage snapshots handed to the classifiers
PcInputs ==
    {<<>>} \cup
    {<<[kind |-> "usage", is_idle |-> idle, idle_seconds |-> secs,
        app_switches_in_window |-> sw, unique_apps_in_window |-> ua,
        epoch |-> 0, t |-> 0]>> :
        idle \in BOOLEAN, secs \in IdleSecondsValues,
        sw \in AppSwitchValues, ua \in UniqueAppValues}

ClassifyInit ==
    /\ should_monitor = FALSE
    /\ paused = FALSE
    /\ config = [model_tier |-> "none"]
    /\ latest_camera_snapshot \in CameraInputs
    /\ latest_pc_snapshot \in PcInputs
    /\ notification_engine = None
    /\ shared_llm_backend = <<>>
    /\ llm_load_failed = FALSE
    /\ llm_lock = [holder |-> <<>>, waiters |-> <<>>]
    /\ monitoring_tasks = <<>>
    /\ tasks = <<>>
    /\ threads = {}
    /\ backends = <<>>
    /\ stops = <<>>
    /\ model_file = FALSE
    /\ resumes = 0
    /\ config_changes = 0
    /\ clock = 0
    /\ last_step = [act |-> "init", events |-> {}, classified |-> {},
                    final |-> <<>>, given |-> <<>>]
    /\ NIdle
    /\ HIdle /\ DIdle

\* one call classifier(camera, pc) on the two cells
Call(name, result) ==
    /\ last_step.act = "init"
    /\ last_step' = [act |-> name, events |-> {},
                     classified |-> Snaps(latest_camera_snapshot, latest_pc_snapshot),
                     final |-> <<result>>,
                     given |-> <<latest_camera_snapshot, latest_pc_snapshot>>]
    /\ UNCHANGED <<should_monitor, paused, config, latest_camera_snapshot,
                   latest_pc_snapshot, notification_engine, shared_llm_backend,
                   llm_load_failed, llm_lock, monitoring_tasks, tasks, threads,
                   backends, stops, model_file, resumes, config_changes, clock>>
    /\ UNCHANGED <<nvars, hvars, dvars>>

Classify ==
    Call("classify_unified",
         classify_unified(latest_camera_snapshot, latest_pc_snapshot))

ClassifyFallback ==
    Call("classify_unified_fallback",
         classify_unified_fallback(latest_camera_snapshot, latest_pc_snapshot))

CNext == Classify \/ ClassifyFallback

ClassifySpec == ClassifyInit /\ [][CNext]_vars

-----------------------------------------------------------------------------
(* Settings updates on a running engine.  The integration loop is seen as
   its evaluate calls on _notification_engine, which it created when it
   started; apply_config runs between two of them. *)

SettingsInit ==
    /\ should_monitor = TRUE
    /\ paused = FALSE
    /\ config = [model_tier |-> "none"]
    /\ latest_camera_snapshot = <<>>
    /\ latest_pc_snapshot = <<>>
    /\ notification_engine = "engine"
    /\ shared_llm_backend = <<>>
    /\ llm_load_failed = FALSE
    /\ llm_lock = [holder |-> <<>>, waiters |-> <<>>]
    /\ monitoring_tasks = <<>>
    /\ tasks = <<>>
    /\ threads = {}
    /\ backends = <<>>
    /\ stops = <<>>
    /\ model_file = FALSE
    /\ resumes = 0
    /\ config_changes = 0
    /\ clock = 0
    /\ last_step = [act |-> "init", events |-> {}, classified |-> {},
                    final |-> <<>>, given |-> <<>>]
    /\ HIdle /\ DIdle
    /\ ncfg \in Configs
    /\ engine = NewEngine(ncfg)
    /\ t0 \in StartTimes
    /\ now = t0
    /\ wall_date = DateOf(t0)
    /\ last_call = [op |-> "init"]
    /\ resets = 0
    /\ run_since_reset = <<>>
    /\ emitted = <<>>

\* apply_config, lines 379-389: the engine object is replaced by a new one
ApplySettings ==
    /\ config_changes < MaxConfigChanges
    /\ config' = config
    /\ llm_load_failed' = FALSE
    /\ config_changes' = config_changes + 1
    /\ \E c \in Configs :
          /\ ncfg' = c
          /\ engine' = IF notification_engine # None THEN NewEngine(c) ELSE engine
    /\ last_call' = [op |-> "apply_config"]
    /\ UNCHANGED <<now, t0, wall_date, resets, run_since_reset, emitted>>
    /\ UNCHANGED <<should_monitor, paused, latest_camera_snapshot,
                   latest_pc_snapshot, notification_engine, shared_llm_backend,
                   llm_lock, monitoring_tasks, tasks, threads, backends, stops,
                   model_file, resumes, clock, last_step>>
    /\ UNCHANGED <<hvars, dvars>>

TNext == EvaluateFirst \/ EvaluateNext \/ ApplySettings

SettingsSpec == SettingsInit /\ [][TNext]_vars

-----------------------------------------------------------------------------
(* User responses to notifications, between the ticks of a running engine. *)

\* the actions a caller passes: the three of the interface and a string that
\* is none of them
UserActions == {"accepted", "snoozed", "dismissed", "later"}

\* the indexes and ids a caller passes: those of the notifications there
\* can be, one below and one above
NotificationRefs == -1..3

\* a call of NotificationEngine.record_user_action
RecordUserAction ==
    /\ last_call.op = "evaluate"
    /\ \E index \in NotificationRefs, action \in UserActions :
         /\ engine' = record_user_action(engine, index, action)
         /\ last_call' = [op |-> "record_user_action", index |-> index,
                          action |-> action, before |-> engine.notifications,
                          after |-> engine'.notifications,
                          exists |-> (index + 1) \in DOMAIN engine.notifications,
                          at |-> index + 1]
    /\ UNCHANGED <<ncfg, now, t0, wall_date, resets, run_since_reset, emitted>>
    /\ UNCHANGED <<ovars, hvars, dvars>>

\* POST /notifications/{notification_id}/respond, routes.py lines 308-319:
\* the body is a dict with or without the key "action"
RespondToNotification ==
    /\ last_call.op = "evaluate"
    /\ \E notification_id \in NotificationRefs,
          body \in {<<>>} \cup {<<a>> : a \in UserActions} :
         LET action == IF body = <<>> THEN "dismissed" ELSE body[1]
         IN  /\ emitted' = update_notification_action(emitted, notification_id,
                                                      action)
             /\ last_call' = [op |-> "respond", index |-> notification_id,
                              action |-> action, before |-> emitted,
                              after |-> emitted',
                              exists |-> notification_id \in DOMAIN emitted,
                              at |-> notification_id]
    /\ UNCHANGED <<engine, ncfg, now, t0, wall_date, resets, run_since_reset>>
    /\ UNCHANGED <<ovars, hvars, dvars>>

\* a tick of a run in which no user has responded yet
EvaluateUnanswered ==
    /\ last_call.op = "evaluate"
    /\ EvaluateNext

\* ticks of the integration loop, and then one user response
UNext ==
    \/ EvaluateFirst
    \/ EvaluateUnanswered
    \/ RecordUserAction
    \/ RespondToNotification

RespondSpec == NInit /\ [][UNext]_vars

-----------------------------------------------------------------------------
(* Part III.  Bucket aggregator: build_bucketed_segments of
   engine/history/aggregator.py.  A log entry is a record of its timestamp
   and its integrated_state; timestamps are whole seconds.  A Python dict
   from state to seconds is the sequence of its items in insertion order. *)

\* a call is made on at most this many log entries
MaxEntries == 3

\* the duration credited to the last entry, line 204
LAST_ENTRY_DURATION == 5

Min(a, b) == IF a < b THEN a ELSE b

\* list.insert that keeps a list sorted by timestamp: e goes behind every
\* entry whose timestamp is not greater
RECURSIVE InsertByTimestamp(_, _)
InsertByTimestamp(s, e) ==
    IF s = <<>> THEN <<e>>
    ELSE IF s[Len(s)].timestamp <= e.timestamp THEN Append(s, e)
    ELSE Append(InsertByTimestamp(SubSeq(s, 1, Len(s) - 1), e), s[Len(s)])

\* sorted(logs, key=lambda x: x["timestamp"]): Python's sort is stable
RECURSIVE sorted(_)
sorted(entries) ==
    IF entries = <<>> THEN <<>>
    ELSE InsertByTimestamp(sorted(SubSeq(entries, 1, Len(entries) - 1)),
                           entries[Len(entries)])

\* d.get(state, 0.0)
DictGet(d, state) ==
    IF \E i \in DOMAIN d : d[i].state = state
    THEN d[CHOOSE i \in DOMAIN d : d[i].state = state].seconds
    ELSE 0

\* d[state] = seconds: a new key goes to the end
DictSet(d, state, seconds) ==
    IF \E i \in DOMAIN d : d[i].state = state
    THEN [i \in DOMAIN d |->
             IF d[i].state = state THEN [state |-> state, seconds |-> seconds]
             ELSE d[i]]
    ELSE Append(d, [state |-> state, seconds |-> seconds])

\* lines 198-204: the duration of entry i of the sorted list
duration(sorted_logs, i, max_duration) ==
    IF i + 1 <= Len(sorted_logs)
    THEN Min(sorted_logs[i + 1].timestamp - sorted_logs[i].timestamp, max_duration)
    ELSE LAST_ENTRY_DURATION

\* line 206, with a bucket_key that is the entry's own timestamp
bucket_key_unaligned(ts, bucket_size) == ts

\* line 206
bucket_key(ts, bucket_size) == (ts \div bucket_size) * bucket_size

\* lines 192-210: the dict buckets after the first i entries
RECURSIVE AssignBuckets(_, _, _, _)
AssignBuckets(sorted_logs, i, bucket_size, max_duration) ==
    IF i = 0 THEN [k \in {} |-> <<>>]
    ELSE
    LET buckets == AssignBuckets(sorted_logs, i - 1, bucket_size, max_duration)
        key == bucket_key(sorted_logs[i].timestamp, bucket_size)
        state == sorted_logs[i].integrated_state
        old == IF key \in DOMAIN buckets THEN buckets[key] ELSE <<>>
        new == DictSet(old, state,
                       DictGet(old, state) + duration(sorted_logs, i, max_duration))
    IN  [k \in DOMAIN buckets \cup {key} |-> IF k = key THEN new ELSE buckets[k]]

\* max(state_durations, key=...) taking the last of the greatest
dominant_state_last(state_durations) ==
    LET i == CHOOSE i \in DOMAIN state_durations :
                 /\ \A j \in DOMAIN state_durations :
                       state_durations[j].seconds <= state_durations[i].seconds
                 /\ \A j \in DOMAIN state_durations :
                       j > i => state_durations[j].seconds < state_durations[i].seconds
    IN  state_durations[i].state

\* line 216: max(state_durations, key=...) is the first key, in the dict's
\* order, of the greatest value
dominant_state(state_durations) ==
    LET i == CHOOSE i \in DOMAIN state_durations :
                 /\ \A j \in DOMAIN state_durations :
                       state_durations[j].seconds <= state_durations[i].seconds
                 /\ \A j \in DOMAIN state_durations :
                       j < i => state_durations[j].seconds < state_durations[i].seconds
    IN  state_durations[i].state

\* lines 213-217: sorted(buckets) and each bucket's result
RECURSIVE BucketResults(_, _)
BucketResults(buckets, keys) ==
    IF keys = {} THEN <<>>
    ELSE LET key == CHOOSE k \in keys : \A o \in keys : k <= o
         IN  <<[bucket_key |-> key,
                state |-> dominant_state(buckets[key]),
                breakdown |-> buckets[key]]>>
             \o BucketResults(buckets, keys \ {key})

\* line 227 without the test: every bucket counts as adjacent
Adjacent_always(last, key) == TRUE

\* line 227: abs(last["end_time"] - bucket_key) < 1.0
Adjacent(last, key) == Abs(last.end_time - key) < 1

\* lines 231-232 left out: the merged bucket's breakdown is dropped
MergeBreakdown_dropped(into, breakdown, n) == into

\* lines 231-232: the first n items of breakdown added to the dict into
RECURSIVE MergeBreakdown(_, _, _)
MergeBreakdown(into, breakdown, n) ==
    IF n = 0 THEN into
    ELSE LET d == MergeBreakdown(into, breakdown, n - 1)
         IN  DictSet(d, breakdown[n].state,
                     DictGet(d, breakdown[n].state) + breakdown[n].seconds)

\* lines 220-243: the list segments after the first n bucket results
RECURSIVE MergeBuckets(_, _, _)
MergeBuckets(bucket_results, n, bucket_size) ==
    IF n = 0 THEN <<>>
    ELSE
    LET segments == MergeBuckets(bucket_results, n - 1, bucket_size)
        b == bucket_results[n]
        bucket_end == b.bucket_key + bucket_size
        last == segments[Len(segments)]
    IN  IF /\ segments # <<>>
           /\ last.state = b.state
           /\ Adjacent(last, b.bucket_key)
        THEN [segments EXCEPT ![Len(segments)] =
                 [state |-> last.state,
                  start_time |-> last.start_time,
                  end_time |-> bucket_end,
                  duration_min |-> (bucket_end - last.start_time) \div 60,
                  breakdown |-> MergeBreakdown(last.breakdown, b.breakdown,
                                               Len(b.breakdown))]]
        ELSE Append(segments,
                    [state |-> b.state,
                     start_time |-> b.bucket_key,
                     end_time |-> bucket_end,
                     duration_min |-> bucket_size \div 60,
                     breakdown |-> b.breakdown])

\* build_bucketed_segments(logs, bucket_minutes, max_entry_duration)
build_bucketed_segments(entries, minutes, max_duration) ==
    IF entries = <<>> THEN <<>>
    ELSE
    LET sorted_logs == sorted(entries)
        bucket_size == minutes * 60
        buckets == AssignBuckets(sorted_logs, Len(sorted_logs), bucket_size,
                                 max_duration)
        bucket_results == BucketResults(buckets, DOMAIN buckets)
    IN  MergeBuckets(bucket_results, Len(bucket_results), bucket_size)

(* ---- the calls ---- *)

\* the timestamps, states and arguments of the calls: one-minute and
\* two-minute buckets, entries at the start, inside and at the end of a
\* bucket, closer together and further apart than max_entry_duration, and
\* an empty one-minute bucket from 180 to 240
Timestamps == {0, 20, 30, 59, 60, 100, 120, 250, 370}

LogStates == {"focused", "drowsy"}

BucketMinutes == {1, 2}

MaxEntryDurations == {30, 3}

LogEntries == [timestamp : Timestamps, integrated_state : LogStates]

LogLists == UNION {[1..n -> LogEntries] : n \in 0..MaxEntries}

BucketInit ==
    /\ OIdle /\ DIdle
    /\ NIdle
    /\ logs \in LogLists
    /\ bucket_minutes \in BucketMinutes
    /\ max_entry_duration \in MaxEntryDurations
    /\ last_build = [op |-> "init"]

\* get_history_bucketed, lines 194-195: one call on the entries as they are
Build ==
    /\ last_build.op = "init"
    /\ last_build' =
           [op |-> "build", entries |-> logs,
            segments |-> build_bucketed_segments(logs, bucket_minutes,
                                                 max_entry_duration)]
    /\ UNCHANGED <<logs, bucket_minutes, max_entry_duration, nvars, ovars, dvars>>

\* the lists that hold the same entries in some order
Orderings(entries) ==
    {[i \in DOMAIN entries |-> entries[f[i]]] :
        f \in Permutations(DOMAIN entries)}

\* one call on the same entries in another order: get_state_log returns
\* them by descending timestamp, entries of one timestamp in any order
BuildReordered ==
    /\ last_build.op = "init"
    /\ \E entries \in Orderings(logs) :
          last_build' =
              [op |-> "reordered", entries |-> entries,
               segments |-> build_bucketed_segments(entries, bucket_minutes,
                                                    max_entry_duration)]
    /\ UNCHANGED <<logs, bucket_minutes, max_entry_duration, nvars, ovars, dvars>>

\* the entries before a time, and those from it on
Earlier(entries, at) == SelectSeq(entries, LAMBDA e : e.timestamp < at)

Later(entries, at) == SelectSeq(entries, LAMBDA e : e.timestamp >= at)

\* the bucket boundaries that split the entries into two non-empty halves
SplitPoints ==
    {at \in {bucket_key(logs[i].timestamp, bucket_minutes * 60) : i \in DOMAIN logs} :
        Earlier(logs, at) # <<>>}

\* one call on each half of the entries, the results concatenated
BuildHalves ==
    /\ last_build.op = "init"
    /\ \E at \in SplitPoints :
          last_build' =
              [op |-> "halves", entries |-> logs, at |-> at,
               segments |->
                   build_bucketed_segments(Earlier(logs, at), bucket_minutes,
                                           max_entry_duration)
                   \o build_bucketed_segments(Later(logs, at), bucket_minutes,
                                              max_entry_duration)]
    /\ UNCHANGED <<logs, bucket_minutes, max_entry_duration, nvars, ovars, dvars>>

BNext == Build \/ BuildReordered \/ BuildHalves

BucketSpec == BucketInit /\ [][BNext]_vars

(* ---- focus blocks of the daily statistics ---- *)

\* datetime.fromtimestamp(ts).strftime("%H:%M"), the local zone being UTC:
\* the hour and the minute of the day
strftime_HM(ts) ==
    [hour |-> (ts \div 3600) % 24, minute |-> (ts \div 60) % 60]

\* round(seconds / 60.0): Python rounds a half to the even neighbour
round_minutes(seconds) ==
    LET q == seconds \div 60
        r == seconds % 60
    IN  IF r < 30 THEN q
        ELSE IF r > 30 THEN q + 1
        ELSE IF q % 2 = 0 THEN q ELSE q + 1

\* lines 135-142 and 148-155: the block is appended when it is long enough
CloseBlock(blocks, block_start, last_focused_ts, min_block_minutes) ==
    IF last_focused_ts - block_start >= min_block_minutes * 60
    THEN Append(blocks, [start |-> strftime_HM(block_start),
                         end |-> strftime_HM(last_focused_ts),
                         duration_min |-> round_minutes(last_focused_ts - block_start)])
    ELSE blocks

\* lines 122-143: the loop over the logs, after the first n of them;
\* block_start is optional (<<>> for None)
RECURSIVE FocusLoop(_, _, _)
FocusLoop(sorted_logs, n, min_block_minutes) ==
    IF n = 0 THEN [blocks |-> <<>>, block_start |-> <<>>, last_focused_ts |-> 0]
    ELSE
    LET before == FocusLoop(sorted_logs, n - 1, min_block_minutes)
        state == sorted_logs[n].integrated_state
        ts == sorted_logs[n].timestamp
    IN  IF state = "focused"
        THEN [before EXCEPT !.block_start = IF @ = <<>> THEN <<ts>> ELSE @,
                            !.last_focused_ts = ts]
        ELSE IF before.block_start # <<>>
             THEN [before EXCEPT
                      !.blocks = CloseBlock(@, before.block_start[1],
                                            before.last_focused_ts,
                                            min_block_minutes),
                      !.block_start = <<>>]
             ELSE before

\* _extract_focus_blocks(logs, min_block_minutes)
_extract_focus_blocks(sorted_logs, min_block_minutes) ==
    LET after == FocusLoop(sorted_logs, Len(sorted_logs), min_block_minutes)
    IN  IF after.block_start # <<>>
        THEN CloseBlock(after.blocks, after.block_start[1],
                        after.last_focused_ts, min_block_minutes)
        ELSE after.blocks

\* the minimum block lengths of the calls, in minutes
MinBlockMinutes == {1, 2}

FocusInit ==
    /\ OIdle /\ DIdle
    /\ NIdle
    /\ logs \in LogLists
    /\ bucket_minutes \in BucketMinutes
    /\ max_entry_duration = 30
    /\ last_build = [op |-> "init"]

\* compute_daily_stats, lines 49-50 and 74-75: the day's logs are sorted by
\* timestamp and their focus blocks extracted
ComputeFocusBlocks ==
    /\ last_build.op = "init"
    /\ \E m \in MinBlockMinutes :
          last_build' =
              [op |-> "focus_blocks", min_block_minutes |-> m,
               focus_blocks |-> _extract_focus_blocks(sorted(logs), m)]
    /\ UNCHANGED <<logs, bucket_minutes, max_entry_duration, nvars, ovars, dvars>>

\* get_history_bucketed on the same day's logs
DNext == ComputeFocusBlocks \/ Build

FocusSpec == FocusInit /\ [][DNext]_vars

-----------------------------------------------------------------------------
(* Part IV.  Model downloads: the routes of engine/api/models.py and the
   start-up thread of engine/main.py.  The dict _download_state maps a
   model id to <<entry>>, or to <<>> while it has no key for the id.  A
   run of _download_worker is seen at its end, where it writes the files
   and the status; its thread is running from its start to that step. *)

\* the keys of _MODEL_REGISTRY
_MODEL_REGISTRY == {"qwen2.5-3b", "qwen2.5-7b", "face_landmarker"}

\* the ids a request may name: those of the registry and one that is not
RequestedIds == _MODEL_REGISTRY \cup {"unknown"}

\* at most this many "download-<id>" threads of one model in the model
MaxDownloadThreads == 2

_is_model_downloaded(model_id) == model_id \in model_files

\* _download_state.get(model_id, {}).get("status")
RecordedStatus(model_id) ==
    IF _download_state[model_id] = <<>> THEN None
    ELSE _download_state[model_id][1].status

\* the running executions of _download_worker(model_id), in the threads
\* of the requests and in the start-up thread
Workers(model_id) ==
    download_threads[model_id]
    + (IF auto_download.pc = "worker" /\ Head(auto_download.todo) = model_id
       THEN 1 ELSE 0)

\* the list models_to_download of _auto_download_essential_models
models_to_download ==
    (IF ~_is_model_downloaded("face_landmarker")
     THEN <<"face_landmarker">> ELSE <<>>)
    \o (IF ~_is_model_downloaded("qwen2.5-3b")
        THEN <<"qwen2.5-3b">> ELSE <<>>)

\* the end of _download_worker(model_id): the files are there and the
\* status is "completed", or the download raised and the status is "error"
_download_worker(model_id, raised) ==
    /\ model_files' = IF raised THEN model_files
                      ELSE model_files \cup {model_id}
    /\ _download_state' =
         [_download_state EXCEPT ![model_id] =
            IF raised THEN <<[status |-> "error", error |-> "str(e)"]>>
            ELSE <<[status |-> "completed", error |-> None]>>]

\* lifespan: _auto_download_essential_models, before any request is served
AutoDownloadEssentialModels ==
    /\ auto_download.pc = "boot"
    /\ auto_download' =
         IF models_to_download = <<>> THEN [pc |-> "done", todo |-> <<>>]
         ELSE [pc |-> "mark", todo |-> models_to_download]
    /\ last_request' = [op |-> "lifespan"]
    /\ UNCHANGED <<_download_state, model_files, download_threads>>
    /\ UNCHANGED <<nvars, ovars, hvars>>

\* _download_all: the locked block that records the next model
AutoDownloadMarks ==
    /\ auto_download.pc = "mark"
    /\ _download_state' =
         [_download_state EXCEPT ![Head(auto_download.todo)] =
            <<[status |-> "downloading", error |-> None]>>]
    /\ auto_download' = [auto_download EXCEPT !.pc = "worker"]
    /\ UNCHANGED <<model_files, download_threads, last_request>>
    /\ UNCHANGED <<nvars, ovars, hvars>>

\* _download_all: its call of _download_worker returns
AutoDownloadWorkerEnds(raised) ==
    /\ auto_download.pc = "worker"
    /\ _download_worker(Head(auto_download.todo), raised)
    /\ auto_download' =
         IF Len(auto_download.todo) = 1 THEN [pc |-> "done", todo |-> <<>>]
         ELSE [pc |-> "mark", todo |-> Tail(auto_download.todo)]
    /\ UNCHANGED <<download_threads, last_request>>
    /\ UNCHANGED <<nvars, ovars, hvars>>

\* POST /api/models/{model_id}/download
download_model(model_id) ==
    /\ auto_download.pc # "boot"
    /\ IF model_id \notin _MODEL_REGISTRY
       THEN /\ last_request' = [op |-> "download", model_id |-> model_id,
                                recorded |-> None, code |-> 404,
                                started |-> FALSE]
            /\ UNCHANGED <<_download_state, download_threads>>
       ELSE IF _is_model_downloaded(model_id)
       THEN /\ last_request' = [op |-> "download", model_id |-> model_id,
                                recorded |-> RecordedStatus(model_id),
                                code |-> 200, started |-> FALSE]
            /\ UNCHANGED <<_download_state, download_threads>>
       ELSE IF RecordedStatus(model_id) = "downloading"
       THEN /\ last_request' = [op |-> "download", model_id |-> model_id,
                                recorded |-> "downloading", code |-> 409,
                                started |-> FALSE]
            /\ UNCHANGED <<_download_state, download_threads>>
       ELSE /\ download_threads[model_id] < MaxDownloadThreads
            /\ _download_state' =
                 [_download_state EXCEPT ![model_id] =
                    <<[status |-> "downloading", error |-> None]>>]
            /\ download_threads' =
                 [download_threads EXCEPT ![model_id] = @ + 1]
            /\ last_request' = [op |-> "download", model_id |-> model_id,
                                recorded |-> RecordedStatus(model_id),
                                code |-> 200, started |-> TRUE]
    /\ UNCHANGED <<model_files, auto_download>>
    /\ UNCHANGED <<nvars, ovars, hvars>>

\* a thread "download-<model_id>" ends: its _download_worker returns
DownloadThreadEnds(model_id, raised) ==
    /\ download_threads[model_id] > 0
    /\ _download_worker(model_id, raised)
    /\ download_threads' = [download_threads EXCEPT ![model_id] = @ - 1]
    /\ UNCHANGED <<auto_download, last_request>>
    /\ UNCHANGED <<nvars, ovars, hvars>>

\* DELETE /api/models/{model_id}
delete_model(model_id) ==
    /\ auto_download.pc # "boot"
    /\ IF model_id \notin _MODEL_REGISTRY \/ ~_is_model_downloaded(model_id)
       THEN /\ last_request' = [op |-> "delete", model_id |-> model_id,
                                code |-> 404]
            /\ UNCHANGED <<_download_state, model_files>>
       ELSE /\ model_files' = model_files \ {model_id}
            /\ _download_state' = [_download_state EXCEPT ![model_id] = <<>>]
            /\ last_request' = [op |-> "delete", model_id |-> model_id,
                                code |-> 200]
    /\ UNCHANGED <<download_threads, auto_download>>
    /\ UNCHANGED <<nvars, ovars, hvars>>

\* the models directory is in any state when the engine starts
DownloadInit ==
    /\ _download_state = [m \in _MODEL_REGISTRY |-> <<>>]
    /\ model_files \in SUBSET _MODEL_REGISTRY
    /\ download_threads = [m \in _MODEL_REGISTRY |-> 0]
    /\ auto_download = [pc |-> "boot", todo |-> <<>>]
    /\ last_request = [op |-> "init"]
    /\ NIdle
    /\ OIdle
    /\ HIdle

WNext ==
    \/ AutoDownloadEssentialModels
    \/ AutoDownloadMarks
    \/ \E raised \in BOOLEAN : AutoDownloadWorkerEnds(raised)
    \/ \E model_id \in RequestedIds : download_model(model_id)
    \/ \E model_id \in _MODEL_REGISTRY, raised \in BOOLEAN :
         DownloadThreadEnds(model_id, raised)
    \/ \E model_id \in RequestedIds : delete_model(model_id)

DownloadSpec == DownloadInit /\ [][WNext]_vars

-----------------------------------------------------------------------------
(* Claims about the NotificationEngine, checked under NotifySpec. *)

\* the latest call was an evaluate call (its record is still current)
Evaluated == last_call.op = "evaluate"

\* the trigger condition of a type in the latest evaluate call, cooldown
\* and daily cap aside
Pattern(type) ==
    LET consecutive_seconds == now - engine.consecutive_start
    IN  CASE type = "drowsy" ->
                last_call.state = "drowsy"
                /\ consecutive_seconds >= engine.drowsy_trigger
          [] type = "distracted" ->
                last_call.state = "distracted"
                /\ consecutive_seconds >= engine.distracted_trigger
          [] type = "over_focus" ->
                SumFocused(engine.state_history, now - engine.over_focus_window)
                    >= engine.over_focus_threshold

\* the type had fired before the latest evaluate call
FiredBefore(type) == type \in DOMAIN last_call.last_before

\* seconds from the type's last fire to the latest evaluate call
SinceLastFired(type) == now - last_call.last_before[type]

Priority(type) ==
    CASE type = "drowsy" -> 1 [] type = "distracted" -> 2 [] type = "over_focus" -> 3

\* the latest evaluate call fired a type that is checked before this one
HigherFired(type) ==
    /\ last_call.fired # None
    /\ Priority(last_call.fired) < Priority(type)

\* any two notifications of one type are at least its cooldown apart
CooldownApart ==
    \A i, j \in DOMAIN engine.notifications :
        (i < j /\ engine.notifications[i].type = engine.notifications[j].type)
        => engine.notifications[j].timestamp - engine.notifications[i].timestamp
               >= engine.cooldowns[engine.notifications[i].type]

\* C1 as stated: a type that fired before is blocked exactly when less than
\* its cooldown has passed since it last fired, so an evaluation at or after
\* the cooldown boundary whose pattern matches fires it, and two evaluations
\* less than the cooldown apart never both fire it.
C1_AsStated ==
    /\ CooldownApart
    /\ Evaluated =>
         \A type \in NotificationTypes :
            (FiredBefore(type) /\ Pattern(type)) =>
                (last_call.fired = type
                    <=> ~(SinceLastFired(type) < engine.cooldowns[type]))

\* C1 (amended): a type is never fired less than its cooldown after it last
\* fired, two notifications of one type are never less than its cooldown
\* apart, and an evaluation at or after the cooldown boundary whose pattern
\* matches fires the type unless the daily cap is reached or a type of
\* higher priority fires in the same call.
C1_CooldownGating ==
    /\ CooldownApart
    /\ Evaluated =>
         \A type \in NotificationTypes :
            FiredBefore(type) =>
                /\ SinceLastFired(type) < engine.cooldowns[type]
                       => last_call.fired # type
                /\ ( /\ SinceLastFired(type) >= engine.cooldowns[type]
                     /\ Pattern(type)
                     /\ ~last_call.capped
                     /\ ~HigherFired(type) )
                       => last_call.fired = type

\* C1 witness: a type fires again exactly at its cooldown boundary
C1_Witness ==
    /\ Evaluated
    /\ \E type \in NotificationTypes :
          /\ FiredBefore(type)
          /\ SinceLastFired(type) = engine.cooldowns[type]
          /\ last_call.fired = type

\* the type was allowed to fire in the latest evaluate call: the daily cap
\* was not reached and the type was not on cooldown
Allowed(type) ==
    /\ ~last_call.capped
    /\ ~( now - (IF FiredBefore(type) THEN last_call.last_before[type] ELSE 0)
            < engine.cooldowns[type] )

\* C2: every evaluate call fires at most one notification, and the type it
\* fires is the first of drowsy, distracted, over_focus whose pattern
\* matches and which is allowed to fire.
C2_PrioritySingleFire ==
    Evaluated =>
        /\ last_call.appended \in {0, 1}
        /\ last_call.appended = 1 <=> last_call.fired # None
        /\ \A type \in NotificationTypes :
              (Pattern(type) /\ Allowed(type)) =>
                  /\ last_call.fired # None
                  /\ Priority(last_call.fired) <= Priority(type)
        /\ last_call.fired # None =>
              (Pattern(last_call.fired) /\ Allowed(last_call.fired))

\* C2 witness: drowsy and over_focus both match and are both allowed, and
\* the call fires drowsy alone
C2_Witness ==
    /\ Evaluated
    /\ Pattern("drowsy") /\ Allowed("drowsy")
    /\ Pattern("over_focus") /\ Allowed("over_focus")
    /\ last_call.fired = "drowsy"
    /\ last_call.appended = 1

\* C3 as stated: the notifications whose timestamp falls on one calendar
\* day never number more than max_notifications_per_day.
C3_DailyCapByTimestamp ==
    \A n \in DOMAIN engine.notifications :
        Cardinality({ m \in DOMAIN engine.notifications :
                        DateOf(engine.notifications[m].timestamp)
                            = DateOf(engine.notifications[n].timestamp) })
            <= engine.max_per_day

-----------------------------------------------------------------------------
(* Claims about the orchestrator, checked under OrchSpec, PauseSpec and
   StaleSpec. *)

\* the threads in which a model load is in progress
Loading == {th \in threads : th.kind = "load"}

\* the threads in which llm.classify is executing on a loaded model
Inferring == {th \in threads : th.kind = "classify" /\ th.alive}

LoadedBackends == {b \in DOMAIN backends : backends[b] = "loaded"}

\* C4: singleton initialisation.  At most one model load is in progress at
\* a time, no load starts while a loaded backend exists, and at most one
\* loaded backend instance exists at any time.
C4_SingletonInitialisation ==
    /\ Cardinality(Loading) <= 1
    /\ "load" \in last_step.events => LoadedBackends = {}
    /\ Cardinality(LoadedBackends) <= 1

\* C5: serialised inference.  At every moment at most one inference call
\* is executing on the shared backend, and no inference call executes while
\* a model load is in progress.
C5_SerialisedInference ==
    /\ \A i \in DOMAIN shared_llm_backend :
          Cardinality({th \in Inferring : th.backend = shared_llm_backend[i]}) <= 1
    /\ ~(Inferring # {} /\ Loading # {})

\* C6: stop releases the backend only after all loops have finished.  When
\* the shared backend is unloaded, no monitoring loop is still running and no
\* inference call on that backend is still executing.
C6_StopReleasesAfterLoops ==
    last_step.act = "unload" =>
        /\ \A t \in DOMAIN tasks : Finished(t)
        /\ \A s \in DOMAIN stops :
              stops[s].pc = "unloaded" =>
                 ~\E th \in Inferring : th.backend = stops[s].backend[1]

\* C7: pause records nothing.  While the engine is paused no state is
\* broadcast, no state entry is written to the history log and the
\* notification engine is not evaluated, not even by a tick that was in
\* progress when the pause was requested.
C7_PauseRecordsNothing ==
    paused => last_step.events \cap {"broadcast", "log", "evaluate"} = {}

\* C9: resume discards pre-pause snapshots.  A snapshot given to a
\* classifier was captured after the latest resume.
C9_ResumeDiscardsSnapshots ==
    \A snap \in last_step.classified : snap.epoch = resumes

\* C10: staleness.  A snapshot given to a classifier is never older than
\* the maximum freshness window of 30 seconds.
C10_Staleness ==
    \A snap \in last_step.classified : clock - snap.t <= SNAPSHOT_MAX_AGE_SECONDS

\* the usage snapshot is absent or has its idle flag set
PcIdle(pc) == pc = <<>> \/ pc[1].is_idle

\* C11: idle short-circuit.  A tick that finds the facial snapshot absent
\* and the usage snapshot absent or idle classifies, broadcasts, logs and
\* evaluates nothing; any other tick is not skipped.
C11_IdleShortCircuit ==
    last_step.act = "integration_wake" /\ should_monitor /\ ~paused =>
        IF latest_camera_snapshot = <<>> /\ PcIdle(latest_pc_snapshot)
        THEN last_step.events = {}
        ELSE "classify" \in last_step.events

IsPrefix(s, r) == Len(s) <= Len(r) /\ s = SubSeq(r, 1, Len(s))

\* C12: order within a tick.  What a tick has done so far is always a
\* prefix of classification, history-log append, state broadcast,
\* notification evaluation.
C12_OrderWithinTick ==
    \A t \in DOMAIN tasks :
        IsPrefix(tasks[t].tick, <<"classify", "log", "broadcast", "evaluate">>)

\* the integration loops that go on executing ticks
LiveIntegrationLoops ==
    {t \in DOMAIN tasks :
        tasks[t].kind = "integration" /\ ~Finished(t) /\ ~tasks[t].cancel}

\* C13: order across ticks.  At most one history-log write is in flight
\* and at most one integration loop is executing ticks.
C13_OrderAcrossTicks ==
    /\ Cardinality({t \in DOMAIN tasks : tasks[t].pc = "log"}) <= 1
    /\ Cardinality(LiveIntegrationLoops) <= 1

\* C14: arbitration failure falls back.  When the backend is unavailable,
\* raises or returns output without a state, the tick's final classification
\* is the fallback classifier's result for the tick's two snapshots.
C14_ArbitrationFailureFallsBack ==
    last_step.events \cap {"fallback", "raise", "parse_error"} # {} =>
        last_step.final =
            <<classify_unified_fallback(last_step.given[1], last_step.given[2])>>

\* C15: sticky load failure.  A failed load attempt sets the sentinel; while
\* it is set and no configuration change is applied it stays set, every
\* request for the backend is answered 'unavailable' and no load starts; a
\* configuration change clears it.
C15_StickyLoadFailure ==
    [][ /\ "load_failed" \in last_step'.events => llm_load_failed'
        /\ llm_load_failed /\ config_changes' = config_changes =>
              /\ llm_load_failed'
              /\ "load" \notin last_step'.events
              /\ "request" \in last_step'.events => "fallback" \in last_step'.events
        /\ config_changes' # config_changes => ~llm_load_failed' ]_vars

\* C15 witness: the model file has appeared, yet a request is answered
\* 'unavailable' because an earlier attempt failed
C15_Witness ==
    /\ llm_load_failed
    /\ model_file
    /\ config.model_tier # "none"
    /\ {"request", "fallback"} \subseteq last_step.events

\* C16: persistence failure is survivable.  A failing history write skips
\* that tick's notification evaluation and never ends the integration loop.
C16_PersistenceFailureSurvivable ==
    /\ "log_failed" \in last_step.events => "evaluate" \notin last_step.events
    /\ \A t \in DOMAIN tasks : tasks[t].pc # "crashed"

\* C17: arbitration only on Ambiguous.  A tick waits for, loads or invokes
\* the backend only with snapshots the rule cascade found ambiguous; when the
\* cascade returns a result, that result is the tick's final classification
\* and the backend is not requested.
C17_ArbitrationOnlyOnAmbiguous ==
    /\ \A t \in DOMAIN tasks :
          tasks[t].pc \in {"lock_load", "loading", "lock_infer", "inferring"} =>
             classify_unified(tasks[t].loc.camera_snap, tasks[t].loc.pc_snap)
                = Ambiguous
    /\ last_step.given # <<>> =>
          LET r == classify_unified(last_step.given[1], last_step.given[2])
          IN  r # Ambiguous =>
                 /\ last_step.final = <<r>>
                 /\ last_step.events = {"classify", "broadcast"}

\* C17 witness: a tick whose snapshots the rule cascade decided
C17_Witness ==
    /\ last_step.act = "integration_wake"
    /\ last_step.given # <<>>
    /\ classify_unified(last_step.given[1], last_step.given[2]) # Ambiguous
    /\ last_step.final # <<>>

-----------------------------------------------------------------------------
(* Claims about the two classifiers, checked under ClassifySpec. *)

\* the latest step called classify_unified / classify_unified_fallback
CalledRules == last_step.act = "classify_unified"

CalledFallback == last_step.act = "classify_unified_fallback"

\* the call's arguments and its result
Facial == last_step.given[1]

Usage == last_step.given[2]

Returned == last_step.final[1]

\* the facial snapshot's angles, as magnitudes
FacialYaw == Abs(Facial[1].head_pose[1].yaw)

FacialPitch == Abs(Facial[1].head_pose[1].pitch)

FacialEar(x) == Facial # <<>> /\ Facial[1].ear_average = <<x>>

FacialYawIs(x) ==
    Facial # <<>> /\ Facial[1].head_pose # <<>> /\ FacialYaw = x

FacialPitchIs(x) ==
    Facial # <<>> /\ Facial[1].head_pose # <<>> /\ FacialPitch = x

\* the steps of the rule cascade in their order, each step stated for the
\* inputs that no earlier step matched; the outcome is <<state, confidence>>
C18_Reference ==
    LET NoFlags == ~Facial[1].perclos_drowsy /\ ~Facial[1].yawning
        EyesAbove(x) ==
            Facial[1].ear_average # <<>> /\ Facial[1].ear_average[1] > x
        Within(limit) ==
            /\ Facial[1].head_pose # <<>>
            /\ FacialYaw < limit
            /\ FacialPitch < FOCUSED_MAX_PITCH
        Active ==
            ~Usage[1].is_idle /\ Usage[1].idle_seconds <= PC_NOT_IDLE_MAX_SECONDS
    IN  IF Facial = <<>> /\ Usage = <<>> THEN <<"unknown", 0>>
        ELSE IF Facial = <<>> THEN <<None, 0>>
        ELSE IF ~Facial[1].face_detected THEN <<"away", 100>>
        ELSE IF /\ Facial[1].face_not_detected_ratio # <<>>
                /\ Facial[1].face_not_detected_ratio[1] > AWAY_FACE_NOT_DETECTED_RATIO
        THEN <<"away", 90>>
        ELSE IF Usage = <<>> THEN <<None, 0>>
        ELSE IF ~NoFlags THEN <<None, 0>>
        ELSE IF EyesAbove(FOCUSED_MIN_EAR) /\ Within(FOCUSED_MAX_YAW) /\ Active
        THEN <<"focused", 90>>
        ELSE IF EyesAbove(FOCUSED_RELAXED_MIN_EAR) /\ Within(FOCUSED_MAX_YAW) /\ ~Active
        THEN <<"focused", 75>>
        ELSE IF EyesAbove(FOCUSED_RELAXED_MIN_EAR) /\ Within(FOCUSED_MAX_YAW)
        THEN <<"focused", 80>>
        ELSE IF EyesAbove(FOCUSED_RELAXED_MIN_EAR)
                /\ Within(FOCUSED_MULTI_MONITOR_MAX_YAW) /\ Active
        THEN <<"focused", 75>>
        ELSE <<None, 0>>

\* C18: the rule cascade equals its first-match-wins reference.  For every
\* pair of optional snapshots classify_unified returns the outcome of the
\* first matching step, never drowsy or distracted, and never focused when
\* the drowsy flag or the yawn flag is set or eye-openness is missing.
C18_RuleCascade ==
    CalledRules =>
        /\ <<Returned.state, Returned.confidence>> = C18_Reference
        /\ (Returned.state = None) <=> (Returned = Ambiguous)
        /\ Returned.state \notin {"drowsy", "distracted"}
        /\ Returned.state = "focused" =>
              /\ ~Facial[1].perclos_drowsy
              /\ ~Facial[1].yawning
              /\ Facial[1].ear_average # <<>>

\* C18 witness: a face missing from more than 70 % of the frames is away
\* at 0.9 although the usage snapshot is idle and the head is turned left
C18_Witness ==
    /\ CalledRules
    /\ Facial # <<>> /\ Facial[1].face_detected
    /\ Facial[1].head_pose # <<>> /\ Facial[1].head_pose[1].yaw < 0
    /\ Usage # <<>> /\ Usage[1].is_idle
    /\ Returned.state = "away" /\ Returned.confidence = 90

\* the focused rules that require the head within the forward envelope
ForwardRules == {"clear focused", "reading or watching", "slightly low EAR"}

\* the rules that require eye-openness above the relaxed floor
RelaxedRules == {"reading or watching", "slightly low EAR", "multi-monitor"}

\* C19 as stated: strict thresholds.  An input exactly at one of a rule's
\* thresholds does not satisfy that rule, the not-idle ceiling excepted:
\* the ratio rule at ratio 0.7, the rules bounded by the high eye-openness
\* threshold and by the relaxed floor, by the forward, multi-monitor and
\* wide-turn yaw limits and by the pitch limit, and the fallback rule on
\* app switches at 6 switches or 4 unique apps.
C19_AsStated ==
    /\ CalledRules =>
          /\ (Facial # <<>> /\ Facial[1].face_not_detected_ratio
                                  = <<AWAY_FACE_NOT_DETECTED_RATIO>>)
                => Returned.reasoning # "face ratio"
          /\ FacialEar(FOCUSED_MIN_EAR)
                => Returned.reasoning \notin {"clear focused", "slightly low EAR"}
          /\ FacialEar(FOCUSED_RELAXED_MIN_EAR)
                => Returned.reasoning \notin RelaxedRules
          /\ FacialYawIs(FOCUSED_MAX_YAW)
                => Returned.reasoning \notin ForwardRules \cup {"multi-monitor"}
          /\ FacialYawIs(FOCUSED_MULTI_MONITOR_MAX_YAW)
                => Returned.reasoning # "multi-monitor"
          /\ FacialPitchIs(FOCUSED_MAX_PITCH) => Returned.state # "focused"
    /\ CalledFallback =>
          /\ FacialYawIs(FALLBACK_DISTRACTED_YAW)
                => Returned.reasoning # "head turned"
          /\ (Usage # <<>> /\
                 \/ Usage[1].app_switches_in_window = FALLBACK_DISTRACTED_APP_SWITCHES
                 \/ Usage[1].unique_apps_in_window = FALLBACK_DISTRACTED_UNIQUE_APPS)
                => Returned.reasoning # "app switches"

\* C19 (amended): the comparisons are strict except the not-idle ceiling
\* and the two bounds that continue an earlier rule: eye-openness exactly at
\* the high threshold does not fire the fast path and yaw exactly at the
\* forward limit fires none of the forward-facing rules, while the
\* slightly-low path takes eye-openness up to and including the high
\* threshold and the multi-monitor path takes yaw from the forward limit
\* on; idle seconds exactly at the ceiling count as active.
C19_Thresholds ==
    /\ CalledRules =>
          /\ (Facial # <<>> /\ Facial[1].face_not_detected_ratio
                                  = <<AWAY_FACE_NOT_DETECTED_RATIO>>)
                => Returned.reasoning # "face ratio"
          /\ FacialEar(FOCUSED_MIN_EAR) => Returned.reasoning # "clear focused"
          /\ FacialEar(FOCUSED_RELAXED_MIN_EAR)
                => Returned.reasoning \notin RelaxedRules
          /\ FacialYawIs(FOCUSED_MAX_YAW)
                => Returned.reasoning \notin ForwardRules
          /\ FacialYawIs(FOCUSED_MULTI_MONITOR_MAX_YAW)
                => Returned.reasoning # "multi-monitor"
          /\ FacialPitchIs(FOCUSED_MAX_PITCH) => Returned.state # "focused"
          /\ (Usage # <<>> /\ ~Usage[1].is_idle
                 /\ Usage[1].idle_seconds = PC_NOT_IDLE_MAX_SECONDS)
                => Returned.reasoning # "reading or watching"
          /\ Returned.reasoning = "slightly low EAR"
                => Facial[1].ear_average[1] <= FOCUSED_MIN_EAR
          /\ Returned.reasoning = "multi-monitor" => FacialYaw >= FOCUSED_MAX_YAW
    /\ CalledFallback =>
          /\ FacialYawIs(FALLBACK_DISTRACTED_YAW)
                => Returned.reasoning # "head turned"
          /\ (Usage # <<>> /\
                 \/ Usage[1].app_switches_in_window = FALLBACK_DISTRACTED_APP_SWITCHES
                 \/ Usage[1].unique_apps_in_window = FALLBACK_DISTRACTED_UNIQUE_APPS)
                => Returned.reasoning # "app switches"

\* C19 witness: eye-openness exactly at the high threshold fires the
\* slightly-low path
C19_Witness ==
    /\ CalledRules
    /\ FacialEar(FOCUSED_MIN_EAR)
    /\ Returned.reasoning = "slightly low EAR"
    /\ Returned.confidence = 80

\* the fallback's checks in their order; the outcome is <<state, confidence>>
C20_Reference ==
    LET Drowsy == Facial # <<>> /\ Facial[1].perclos_drowsy
        Yawn == Facial # <<>> /\ Facial[1].yawning
        WideTurn ==
            /\ Facial # <<>>
            /\ Facial[1].head_pose # <<>>
            /\ FacialYaw > FALLBACK_DISTRACTED_YAW
        Switching ==
            /\ Usage # <<>>
            /\ Usage[1].app_switches_in_window > FALLBACK_DISTRACTED_APP_SWITCHES
            /\ Usage[1].unique_apps_in_window > FALLBACK_DISTRACTED_UNIQUE_APPS
    IN  IF Facial = <<>> /\ Usage = <<>> THEN <<"unknown", 0>>
        ELSE IF Yawn THEN <<"drowsy", IF Drowsy THEN 70 ELSE 60>>
        ELSE IF WideTurn \/ Switching THEN <<"distracted", 60>>
        ELSE <<"focused", 50>>

\* C20: the fallback is total and ordered.  For every pair of optional
\* snapshots classify_unified_fallback returns a result, never Ambiguous,
\* equal to the first match of its checks; a set yawn flag yields drowsy
\* whatever the head yaw and the app-switch counts are.
C20_FallbackTotalOrdered ==
    CalledFallback =>
        /\ Returned # Ambiguous
        /\ Returned.state \in {"unknown", "drowsy", "distracted", "focused"}
        /\ <<Returned.state, Returned.confidence>> = C20_Reference
        /\ (Facial # <<>> /\ Facial[1].yawning) => Returned.state = "drowsy"

\* C20 witness: a yawn with the head turned beyond 45 degrees and with many
\* app switches is drowsy
C20_Witness ==
    /\ CalledFallback
    /\ Facial # <<>> /\ Facial[1].yawning /\ ~Facial[1].perclos_drowsy
    /\ Facial[1].head_pose # <<>> /\ FacialYaw > FALLBACK_DISTRACTED_YAW
    /\ Usage # <<>>
    /\ Usage[1].app_switches_in_window > FALLBACK_DISTRACTED_APP_SWITCHES
    /\ Usage[1].unique_apps_in_window > FALLBACK_DISTRACTED_UNIQUE_APPS
    /\ Returned.state = "drowsy" /\ Returned.confidence = 60

-----------------------------------------------------------------------------
(* Claims about the bucket aggregator, checked under BucketSpec. *)

\* the latest step called build_bucketed_segments on the entries as they are
Built == last_build.op = "build"

Segments == last_build.segments

BucketSize == bucket_minutes * 60

\* the start of the bucket a time lies in
BucketOf(ts) == ts - (ts % BucketSize)

\* the starts of the buckets that hold an entry
NonEmptyBuckets == {BucketOf(logs[i].timestamp) : i \in DOMAIN logs}

\* the starts of the buckets a segment spans
BucketsIn(seg) ==
    {k \in seg.start_time .. (seg.end_time - 1) : k % BucketSize = 0}

RECURSIVE Sum(_)
Sum(numbers) ==
    IF numbers = <<>> THEN 0
    ELSE numbers[1] + Sum(SubSeq(numbers, 2, Len(numbers)))

\* the entries in time order and the weight of the i-th of them
InTimeOrder == sorted(logs)

EntryWeight(i) ==
    IF i < Len(InTimeOrder)
    THEN Min(InTimeOrder[i + 1].timestamp - InTimeOrder[i].timestamp,
             max_entry_duration)
    ELSE 5

\* C21: gap invariant.  Two consecutive segments have the same state only
\* with a gap between them, and a segment spans no empty bucket: an empty
\* bucket between two non-empty ones separates them whatever their states.
C21_GapInvariant ==
    Built =>
        /\ \A i \in 1..(Len(Segments) - 1) :
              Segments[i].state = Segments[i + 1].state
                 => Segments[i].end_time < Segments[i + 1].start_time
        /\ \A i \in DOMAIN Segments :
              BucketsIn(Segments[i]) \subseteq NonEmptyBuckets

\* C21 witness: two segments of one state on the two sides of an empty bucket
C21_Witness ==
    /\ Built
    /\ \E i \in 1..(Len(Segments) - 1) :
          /\ Segments[i].state = Segments[i + 1].state
          /\ Segments[i + 1].start_time - Segments[i].end_time = BucketSize

\* C22: segment structure.  Every segment starts on a multiple of the
\* bucket width, spans a positive whole number of widths and has
\* duration_min = (end_time - start_time) / 60; segments are in increasing
\* time order without overlap; every entry's timestamp lies in exactly one
\* segment; no entries give no segments.
C22_SegmentStructure ==
    Built =>
        /\ \A i \in DOMAIN Segments :
              /\ Segments[i].start_time % BucketSize = 0
              /\ Segments[i].end_time > Segments[i].start_time
              /\ (Segments[i].end_time - Segments[i].start_time) % BucketSize = 0
              /\ Segments[i].duration_min * 60
                    = Segments[i].end_time - Segments[i].start_time
        /\ \A i \in 1..(Len(Segments) - 1) :
              /\ Segments[i].start_time < Segments[i + 1].start_time
              /\ Segments[i].end_time <= Segments[i + 1].start_time
        /\ \A e \in DOMAIN logs :
              Cardinality({i \in DOMAIN Segments :
                              /\ Segments[i].start_time <= logs[e].timestamp
                              /\ logs[e].timestamp < Segments[i].end_time}) = 1
        /\ logs = <<>> => Segments = <<>>

\* C22 witness: a segment of two merged buckets followed by another segment,
\* with an entry inside a bucket
C22_Witness ==
    /\ Built
    /\ Len(Segments) = 2
    /\ Segments[1].end_time - Segments[1].start_time = 2 * BucketSize
    /\ \E e \in DOMAIN logs : logs[e].timestamp % BucketSize # 0

\* the weight of the entries of a state, and what the segments hold for it
WeightOfEntries(state) ==
    Sum([i \in DOMAIN InTimeOrder |->
            IF InTimeOrder[i].integrated_state = state THEN EntryWeight(i) ELSE 0])

WeightInSegments(state) ==
    Sum([i \in DOMAIN Segments |-> DictGet(Segments[i].breakdown, state)])

\* C23: entry weights are conserved.  For every state the breakdowns of the
\* returned segments sum to the weights of the state's entries, an entry's
\* weight being min(next timestamp - own timestamp, max_entry_duration) and
\* the last entry's 5 seconds; a breakdown names no state twice.
C23_WeightsConserved ==
    Built =>
        /\ \A state \in LogStates : WeightInSegments(state) = WeightOfEntries(state)
        /\ \A i \in DOMAIN Segments :
              \A j, k \in DOMAIN Segments[i].breakdown :
                 Segments[i].breakdown[j].state = Segments[i].breakdown[k].state
                    => j = k

\* C23 witness: a merged segment that holds a capped entry and the last one
C23_Witness ==
    /\ Built
    /\ Len(logs) = MaxEntries
    /\ Len(Segments) = 1
    /\ Segments[1].end_time - Segments[1].start_time = 2 * BucketSize
    /\ \E i \in 1..(Len(logs) - 1) : EntryWeight(i) = max_entry_duration
    /\ \E state \in LogStates : WeightOfEntries(state) > max_entry_duration + 5

\* the weight of a state's entries in the bucket that starts at key, and the
\* place in time order of the first of them
WeightInBucket(key, state) ==
    Sum([i \in DOMAIN InTimeOrder |->
            IF /\ InTimeOrder[i].integrated_state = state
               /\ BucketOf(InTimeOrder[i].timestamp) = key
            THEN EntryWeight(i) ELSE 0])

FirstInBucket(key, state) ==
    CHOOSE i \in DOMAIN InTimeOrder :
        /\ InTimeOrder[i].integrated_state = state
        /\ BucketOf(InTimeOrder[i].timestamp) = key
        /\ \A j \in 1..(i - 1) :
              ~(/\ InTimeOrder[j].integrated_state = state
                /\ BucketOf(InTimeOrder[j].timestamp) = key)

StatesInBucket(key) ==
    {InTimeOrder[i].integrated_state :
        i \in {j \in DOMAIN InTimeOrder : BucketOf(InTimeOrder[j].timestamp) = key}}

\* C24: dominant state.  A segment's state has the greatest weight in the
\* segment's breakdown; the state of the segment that spans a bucket has the
\* greatest weight in the bucket and, among the states that tie with it, the
\* earliest first entry in the bucket.
C24_DominantState ==
    Built =>
        \A i \in DOMAIN Segments :
           /\ \A j \in DOMAIN Segments[i].breakdown :
                 Segments[i].breakdown[j].seconds
                    <= DictGet(Segments[i].breakdown, Segments[i].state)
           /\ \A key \in BucketsIn(Segments[i]) :
                 /\ Segments[i].state \in StatesInBucket(key)
                 /\ \A other \in StatesInBucket(key) \ {Segments[i].state} :
                       \/ WeightInBucket(key, other)
                             < WeightInBucket(key, Segments[i].state)
                       \/ /\ WeightInBucket(key, other)
                                = WeightInBucket(key, Segments[i].state)
                          /\ FirstInBucket(key, Segments[i].state)
                                < FirstInBucket(key, other)

\* C24 witness: two states tie in a bucket and the one seen first wins
C24_Witness ==
    /\ Built
    /\ \E i \in DOMAIN Segments :
          \E key \in BucketsIn(Segments[i]) :
             \E other \in StatesInBucket(key) \ {Segments[i].state} :
                /\ WeightInBucket(key, other) = WeightInBucket(key, Segments[i].state)
                /\ WeightInBucket(key, other) > 0

\* a breakdown as a map from its states to their seconds
AsMap(d) == [state \in {d[i].state : i \in DOMAIN d} |-> DictGet(d, state)]

\* two segment lists are equal, the order of the keys of a breakdown aside
SameSegments(a, b) ==
    /\ Len(a) = Len(b)
    /\ \A i \in DOMAIN a :
          /\ a[i].state = b[i].state
          /\ a[i].start_time = b[i].start_time
          /\ a[i].end_time = b[i].end_time
          /\ a[i].duration_min = b[i].duration_min
          /\ AsMap(a[i].breakdown) = AsMap(b[i].breakdown)

\* what one call on the entries as they are returns
Whole == build_bucketed_segments(logs, bucket_minutes, max_entry_duration)

\* C25: bucketing is a function of the set of entries.  A call on the same
\* entries in any order, entries that share a timestamp included, returns
\* what the call on the entries as they are returns.
C25_FunctionOfEntrySet ==
    last_build.op \in {"build", "reordered"} =>
        SameSegments(last_build.segments, Whole)

\* the bucket before the split point holds no entry
GapAt(at) == (at - BucketSize) \notin NonEmptyBuckets

\* C26: split associativity.  Aggregating the entries before a bucket
\* boundary and those from it on and concatenating the results equals
\* aggregating all entries, unless the bucket before the boundary is empty.
C26_SplitAssociativity ==
    (last_build.op = "halves" /\ ~GapAt(last_build.at)) =>
        SameSegments(last_build.segments, Whole)

-----------------------------------------------------------------------------
(* Claims about resets, first fires and settings updates of the
   NotificationEngine, checked under NotifySpec and SettingsSpec. *)

\* the type has fired since the latest reset (since the engine was created
\* when there was none), before the latest evaluate call
FiredSinceReset(type) ==
    \E i \in DOMAIN emitted :
        /\ emitted[i].type = type
        /\ emitted[i].resets = resets
        /\ emitted[i].timestamp < now

\* C27: reset clears cooldowns.  After a reset, the first evaluation whose
\* pattern matches a type that fired before the reset and not since fires
\* it, however short the time since its last fire (the daily cap and a fire
\* of a type checked earlier in the same call aside).
C27_ResetClearsCooldowns ==
    (Evaluated /\ resets > 0) =>
        \A type \in NotificationTypes :
           ( /\ FiredBefore(type)
             /\ ~FiredSinceReset(type)
             /\ Pattern(type)
             /\ ~last_call.capped
             /\ ~HigherFired(type) )
           => last_call.fired = type

\* C28: no cooldown before the first fire.  An evaluation whose pattern
\* matches a type that has not fired since the engine was created fires it
\* whatever the timestamp is (the daily cap and a fire of a type checked
\* earlier in the same call aside).
C28_NoCooldownBeforeFirstFire ==
    Evaluated =>
        \A type \in NotificationTypes :
           ( /\ ~FiredBefore(type)
             /\ Pattern(type)
             /\ ~last_call.capped
             /\ ~HigherFired(type) )
           => last_call.fired = type

\* C29: cooldown state lives for the process.  Over ticks and settings
\* updates, two emitted notifications of one type are at least the type's
\* cooldown apart and no more than the daily cap are emitted on one day.
C29_CooldownStateLivesForProcess ==
    /\ \A i, j \in DOMAIN emitted :
          (i < j /\ emitted[i].type = emitted[j].type)
          => emitted[j].timestamp - emitted[i].timestamp
                >= engine.cooldowns[emitted[i].type]
    /\ \A i \in DOMAIN emitted :
          Cardinality({j \in DOMAIN emitted :
                          DateOf(emitted[j].timestamp) = DateOf(emitted[i].timestamp)})
             <= engine.max_per_day

\* the focused seconds of the entries inside the window that ends at now
FocusedInWindow ==
    Sum([i \in DOMAIN engine.state_history |->
            IF /\ engine.state_history[i][2] = "focused"
               /\ engine.state_history[i][1] >= now - engine.over_focus_window
            THEN engine.state_history[i][3] ELSE 0])

\* over_focus fired before and less than its cooldown ago
OverFocusOnCooldown ==
    /\ FiredBefore("over_focus")
    /\ SinceLastFired("over_focus") < engine.cooldowns["over_focus"]

\* the notifications fired before the latest call on its timestamp's date
\* have reached the daily cap
CapReached ==
    Cardinality({i \in DOMAIN engine.notifications :
                    /\ engine.notifications[i].timestamp < now
                    /\ DateOf(engine.notifications[i].timestamp) = DateOf(now)})
       >= engine.max_per_day

\* C30: over-focus trigger.  An evaluation fires over_focus if and only if
\* it fired neither drowsy nor distracted, over_focus is not on cooldown,
\* the daily cap is not reached and the focused seconds inside the window
\* ending at now are at least the threshold.
C30_OverFocusTrigger ==
    Evaluated =>
        ( last_call.fired = "over_focus"
          <=> /\ last_call.fired \notin {"drowsy", "distracted"}
              /\ ~OverFocusOnCooldown
              /\ ~CapReached
              /\ FocusedInWindow >= engine.over_focus_threshold )

-----------------------------------------------------------------------------
(* Claims about runs of one state and the frame of evaluate, checked under
   NotifySpec. *)

\* the evaluate calls made so far, oldest first, as <<timestamp, state,
\* interval>>: inside Horizon the prune of evaluate (two windows back)
\* removes nothing
Evaluations == engine.state_history

\* the index at which the current run starts: the earliest evaluation from
\* which every evaluation up to the latest one has the latest one's state
RunStart ==
    LET n == Len(Evaluations)
    IN  CHOOSE k \in 1..n :
           /\ \A i \in k..n : Evaluations[i][2] = Evaluations[n][2]
           /\ (k > 1 => Evaluations[k - 1][2] # Evaluations[n][2])

\* seconds from the first evaluation of the current run to the latest one
RunSeconds == Evaluations[Len(Evaluations)][1] - Evaluations[RunStart][1]

TriggerOf(type) ==
    IF type = "drowsy" THEN ncfg.drowsy_trigger_seconds
    ELSE ncfg.distracted_trigger_seconds

\* C31: consecutive-run trigger.  Drowsy (distracted) fires at an
\* evaluation only if that evaluation and every evaluation since the start
\* of the current run had that state and the run has lasted at least the
\* trigger amount; an evaluation with another state restarts the run, so a
\* run that has only just restarted never fires.
C31_ConsecutiveRunTrigger ==
    (Evaluated /\ last_call.fired \in {"drowsy", "distracted"}) =>
        /\ last_call.state = last_call.fired
        /\ Evaluations[Len(Evaluations)][2] = last_call.fired
        /\ RunSeconds >= TriggerOf(last_call.fired)

\* C31 witness: drowsy fires on a run that started after an evaluation
\* with another state, itself preceded by a drowsy evaluation
C31_Witness ==
    /\ Evaluated
    /\ last_call.fired = "drowsy"
    /\ RunStart > 2
    /\ \E i \in 1..(RunStart - 2) : Evaluations[i][2] = "drowsy"

-----------------------------------------------------------------------------
(* Claims about the values of a tick, checked under AnswerSpec. *)

\* the five states of a ClassificationResult
StateDomain == {"focused", "drowsy", "distracted", "away", "unknown"}

\* C32: state domain.  The state that a tick builds from its final
\* classification, which it broadcasts, writes to the history log and
\* passes to the notification engine, is one of focused, drowsy, distracted,
\* away, unknown and its confidence lies in [0,1] (0..100 hundredths),
\* whatever the arbitration backend returns.
C32_StateDomain ==
    last_step.final # <<>> =>
        /\ last_step.final[1].state \in StateDomain
        /\ last_step.final[1].confidence \in 0..100

-----------------------------------------------------------------------------
(* Claims about the focus blocks, checked under FocusSpec. *)

\* the segments of the logs the blocks were extracted from
DaySegments == build_bucketed_segments(logs, bucket_minutes, max_entry_duration)

\* the focused segments of at least the minimum, in the order of the list
RECURSIVE LongFocused(_, _)
LongFocused(segments, min_block_minutes) ==
    IF segments = <<>> THEN <<>>
    ELSE LET rest == LongFocused(Tail(segments), min_block_minutes)
         IN  IF /\ Head(segments).state = "focused"
                /\ Head(segments).duration_min >= min_block_minutes
             THEN <<Head(segments)>> \o rest
             ELSE rest

\* the block that displays a segment
BlockOf(segment) ==
    [start |-> strftime_HM(segment.start_time),
     end |-> strftime_HM(segment.end_time),
     duration_min |-> segment.duration_min]

\* C33: focus blocks.  The blocks returned are exactly one block per
\* segment whose state is focused and whose duration is at least the
\* minimum, in the order of the segments; a non-focused segment produces
\* nothing and focused periods separated by a gap or by another state are
\* never merged into one block.
C33_FocusBlocks ==
    last_build.op = "focus_blocks" =>
        LET expected == LongFocused(DaySegments, last_build.min_block_minutes)
        IN  last_build.focus_blocks = [k \in DOMAIN expected |-> BlockOf(expected[k])]

-----------------------------------------------------------------------------
(* Claims about the integrator, checked under IntegrateSpec. *)

Integrated == last_step.act = "integrate"

\* C34: the integrator is a pure copy.  The IntegratedState built from a
\* ClassificationResult has its state, confidence, reasoning and source,
\* None as camera_state and pc_state, and a timestamp; its dict carries all
\* of these fields, source included, and that source is the one stored with
\* the history entry.
C34_IntegratorPureCopy ==
    Integrated =>
        LET final == last_step.final[1]
            fields == {"state", "confidence", "reasoning", "source",
                       "camera_state", "pc_state", "timestamp"}
        IN  /\ fields \subseteq DOMAIN last_step.integrated
            /\ fields \subseteq DOMAIN last_step.state_data
            /\ \A f \in {"state", "confidence", "reasoning", "source"} :
                  /\ last_step.integrated[f] = final[f]
                  /\ last_step.state_data[f] = final[f]
            /\ \A f \in {"camera_state", "pc_state"} :
                  /\ last_step.integrated[f] = None
                  /\ last_step.state_data[f] = None
            /\ last_step.state_data.timestamp = last_step.integrated.timestamp
            /\ last_step.logged.source = last_step.state_data.source
            /\ last_step.logged.source = final.source

-----------------------------------------------------------------------------
(* Claims about user responses, checked under RespondSpec. *)

Responded == last_call.op \in {"record_user_action", "respond"}

\* C35: a user response changes one field.  Recording a user action for a
\* notification changes only that notification's user_action: its type,
\* message and timestamp and every field of every other notification are
\* unchanged, the resulting user_action is one of accepted, snoozed,
\* dismissed, and an id or index that does not exist changes nothing.
C35_UserResponseOneField ==
    Responded =>
        LET before == last_call.before
            after == last_call.after
        IN  /\ DOMAIN after = DOMAIN before
            /\ \A i \in DOMAIN before :
                  /\ after[i].type = before[i].type
                  /\ after[i].message = before[i].message
                  /\ after[i].timestamp = before[i].timestamp
                  /\ i # last_call.at => after[i] = before[i]
            /\ last_call.exists =>
                  after[last_call.at].user_action
                      \in {"accepted", "snoozed", "dismissed"}
            /\ ~last_call.exists => after = before

-----------------------------------------------------------------------------
(* Claims about starts after a pause, checked under SuspendSpec. *)

\* C36: start always yields working loops.  Whenever a start request moves
\* the engine into the monitoring state the paused flag is false, so the
\* started loops record states without a resume; in particular after pause,
\* stop, start the engine is monitoring and not paused.
C36_StartYieldsWorkingLoops ==
    last_step.act = "start" => (should_monitor /\ ~paused)

-----------------------------------------------------------------------------
(* Claims about what an evaluate call changes, checked under NotifySpec. *)

\* the step is an evaluate call: it adds an entry to the history
EvaluateStep ==
    /\ last_call'.op = "evaluate"
    /\ engine'.state_history # engine.state_history

\* the daily count the call starts from: zero when the wall clock's date is
\* not the one the count belongs to
CountAtCall ==
    IF engine.today_date # <<wall_date>> THEN 0 ELSE engine.today_count

\* the step leaves last-fired times, notifications and count as they are
NothingFired ==
    /\ engine'.last_notification_time = engine.last_notification_time
    /\ engine'.notifications = engine.notifications
    /\ emitted' = emitted
    /\ engine'.today_count = CountAtCall

\* the step records one fire of the type at the time of the call
OneFired(type) ==
    /\ DOMAIN engine'.last_notification_time
          = DOMAIN engine.last_notification_time \cup {type}
    /\ \A t \in DOMAIN engine'.last_notification_time :
          engine'.last_notification_time[t] =
              IF t = type THEN now' ELSE engine.last_notification_time[t]
    /\ Len(engine'.notifications) = Len(engine.notifications) + 1
    /\ SubSeq(engine'.notifications, 1, Len(engine.notifications))
          = engine.notifications
    /\ engine'.notifications[Len(engine'.notifications)].type = type
    /\ engine'.notifications[Len(engine'.notifications)].timestamp = now'
    /\ Len(emitted') = Len(emitted) + 1
    /\ SubSeq(emitted', 1, Len(emitted)) = emitted
    /\ emitted'[Len(emitted')].type = type
    /\ emitted'[Len(emitted')].timestamp = now'
    /\ engine'.today_count = CountAtCall + 1

\* C37: evaluate's frame.  An evaluate call that returns no notification
\* leaves every type's last-fired timestamp, the list of emitted
\* notifications and the daily count unchanged (the count's reset at a date
\* change aside); a call that fires type T sets only T's last-fired
\* timestamp to the evaluation time, appends exactly one notification with
\* that timestamp and raises the daily count by exactly one.
C37_EvaluateFrame ==
    [][ EvaluateStep =>
          IF last_call'.fired = None
          THEN NothingFired
          ELSE OneFired(last_call'.fired) ]_vars

\* C37 witness: a call fires a type while another type has fired before,
\* on a day that already counts a notification
C37_Witness ==
    /\ Evaluated
    /\ last_call.fired # None
    /\ \E t \in DOMAIN last_call.last_before : t # last_call.fired
    /\ engine.today_count = 2

-----------------------------------------------------------------------------
(* Claims about the end of a stop, checked under StopLiveSpec. *)

StopRequested == stops # <<>>

\* every loop has ended and every stop request has returned
StopReturned ==
    /\ \A t \in DOMAIN tasks : Finished(t)
    /\ \A s \in DOMAIN stops : stops[s].pc = "done"
    /\ ~should_monitor
    /\ monitoring_tasks = <<>>

\* C38: stop terminates.  After a stop request, under fair scheduling,
\* every monitoring loop (camera, PC usage, integration) eventually
\* terminates and the stop request returns, leaving the monitoring flag
\* false and no tracked loop tasks, whatever point of a tick or sleep each
\* loop was at.
C38_StopTerminates == StopRequested ~> StopReturned

\* C38 witness: a stop has returned after it cancelled a loop that was
\* still running and unloaded the backend
C38_Witness ==
    /\ StopRequested
    /\ StopReturned
    /\ \E t \in DOMAIN tasks : tasks[t].pc = "cancelled"
    /\ \E b \in DOMAIN backends : backends[b] = "unloaded"

-----------------------------------------------------------------------------
(* Claims about the model downloads, checked under DownloadSpec. *)

\* C39, first part: no model id has two executions of _download_worker
\* running at once, whichever threads run them
OneWorkerPerModel == \A m \in _MODEL_REGISTRY : Workers(m) <= 1

\* C39, second part: the latest download request, if the status recorded
\* for its model was "downloading", was answered 409 and started no thread
DownloadingIsRejected ==
    (last_request.op = "download" /\ last_request.recorded = "downloading")
        => (last_request.code = 409 /\ ~last_request.started)

\* C39: one download per model.  For every model id at most one download
\* worker runs at a time, also between the requests of the user and the
\* start-up thread, and a download request for a model whose recorded
\* status is "downloading" is rejected with 409 and starts no worker.
C39_OneDownloadPerModel == OneWorkerPerModel /\ DownloadingIsRejected

-----------------------------------------------------------------------------
(* Claims about the seconds of a breakdown, checked under BucketSpec. *)

\* the seconds a segment's breakdown credits, over all its states
BreakdownSeconds(seg) ==
    Sum([j \in DOMAIN seg.breakdown |-> seg.breakdown[j].seconds])

\* C40: breakdown fits the span.  For every segment that
\* build_bucketed_segments returns, the seconds of its breakdown sum to no
\* more than its span end_time - start_time, whatever the entries, the
\* bucket width and the maximum weight of an entry.
C40_BreakdownFitsSpan ==
    Built => \A i \in DOMAIN Segments :
                BreakdownSeconds(Segments[i])
                    <= Segments[i].end_time - Segments[i].start_time

====
